---------------------------- MODULE Spec2Model ----------------------------
(***************************************************************************)
(* A model of the hi daemon (hwipl/hi): the daemon router (src/daemon.rs), *)
(* the service directory client (src/client/service/client.rs) and the     *)
(* chunked file transfer client (src/client/file/client.rs).               *)
(*                                                                         *)
(* The three components are checked under separate specifications over    *)
(* one set of variables:                                                   *)
(*   Spec      the router: connections, client registry, routing           *)
(*   SpecPeers the router's peer table, its reaper timer and Get{Peers}    *)
(*   SpecDir   the service directory                                       *)
(*   SpecFT    two file clients exchanging a file                          *)
(***************************************************************************)
EXTENDS Integers, Sequences, FiniteSets, TLC

(***************************************************************************)
(* Bounds of the model                                                     *)
(***************************************************************************)
\* width of a client id in bits (u16 in the source); ALL_CLIENTS is the
\* largest value of that width
IdBits == 2
\* number of connections the server accepts in a run
MaxConns == 2
\* number of client frames that may wait in the router's event channel
MaxQueue == 1
\* number of frames that may wait in the handlers' channels, all together
MaxFrames == 2
\* clock ticks in a second: the resolution of the model's clock
TicksPerSec == 2
\* seconds the clock runs in the peer table's specification
MaxTime == 37
\* full chunks in the largest shared file
MaxChunks == 2
\* steps of the file clients' environment: the clock advanced, a message out of turn
MaxEnvSteps == 2
\* width of a services tag in bits (u32 in the source)
TagBits == 2
\* width of a request id in bits (u32 in the source)
ReqBits == 1
\* calls of send_message on one connection of the socket
MaxSends == 2
\* requests of peers the overlay adapter receives
MaxRequests == 2

(***************************************************************************)
(* Program constants                                                       *)
(***************************************************************************)
\* Message::ALL_CLIENTS = u16::MAX, at the model's id width
ALL_CLIENTS == 2^IdBits - 1

ClientIds == 0..ALL_CLIENTS

\* peer ids seen by the router (opaque strings)
PeerIds == {"P1", "P2"}

\* contents of file messages (opaque byte strings)
Contents == {<<1, 2>>}

VARIABLES
    \* ---- Daemon (src/daemon.rs)
    client_id,      \* Daemon.client_id: the id handed to the next connection
    clients,        \* Daemon.clients: id -> ClientInfo (sender = its connection)
    peers,          \* Daemon.peers: peer id -> PeerInfo
    from_client_rx, \* the channel from_client_tx/from_client_rx of Events
    running,        \* run_server_loop has not returned
    to_swarm,       \* the swarm events sent in the step that led to this state
    \* ---- connection handlers (Daemon::handle_client), by connection number
    conns,          \* sequence of [id, st]: st is spawned, running or closed
    outbox,         \* the channel client_sender/client_receiver of a handler
    wire,           \* the frame written to a client's socket in the step that led
                    \* to this state: <<connection, frame>>, or <<>>
    \* ---- time
    now,            \* SystemTime::now() in clock ticks (TicksPerSec a second)
    timer           \* the tick the router's Delay fires

routerVars == <<client_id, clients, peers, from_client_rx, running, to_swarm,
                conns, outbox, wire, now, timer>>

\* the service directory client (struct ServiceClient): its own services map
\* and tag, its request counter, the maps of the peers, and the messages it
\* wrote to the daemon in the step that led to this state
VARIABLES dir_local, dir_request_id, dir_peers, dir_sent

dirVars == <<dir_local, dir_request_id, dir_peers, dir_sent>>

\* the file clients (struct FileClient), one on each of two peers: their
\* transfers and shared files, the files in their directories, the messages
\* on their way to each of them, the messages a client wrote to its daemon in
\* the step that led to this state, and the number of times the clock of the
\* file clients was advanced
VARIABLES transfers, shares, disk, net, ft_sent, env_steps, ft_chunks

ftVars == <<transfers, shares, disk, net, ft_sent, env_steps, ft_chunks>>

\* a connection of the daemon's socket seen from both ends (struct UnixClient,
\* src/unix_socket.rs), and the overlay adapter (struct HiSwarmHandler,
\* src/daemon/swarm.rs)
VARIABLES socket, swarm

ioVars == <<socket, swarm>>

\* the state of the clients of the daemon and of its socket and overlay
clientVars == <<dirVars, ftVars, ioVars>>

\* all but the directory's state
notDirVars == <<routerVars, ftVars, ioVars>>

vars == <<routerVars, clientVars>>

(***************************************************************************)
(* Finite maps (HashMap)                                                   *)
(***************************************************************************)
MapPut(f, k, v) == [x \in (DOMAIN f) \cup {k} |-> IF x = k THEN v ELSE f[x]]

MapDel(f, k) == [x \in (DOMAIN f) \ {k} |-> f[x]]

EmptyMap == [x \in {} |-> 0]

SeqToSet(s) == {s[i] : i \in 1..Len(s)}

(***************************************************************************)
(* Messages of the IPC protocol (src/daemon_message.rs)                    *)
(***************************************************************************)
MsgOk == [type |-> "Ok"]

MsgError(message) == [type |-> "Error", message |-> message]

MsgRegister(chat, files) == [type |-> "Register", chat |-> chat, files |-> files]

MsgRegisterOk(id) == [type |-> "RegisterOk", client_id |-> id]

MsgFileMessage(to_peer, from_peer, to_client, from_client, content) ==
    [type |-> "FileMessage", to_peer |-> to_peer, from_peer |-> from_peer,
     to_client |-> to_client, from_client |-> from_client, content |-> content]

MsgGet(id, request_id, content) ==
    [type |-> "Get", client_id |-> id, request_id |-> request_id, content |-> content]

MsgSet(id, request_id, content) ==
    [type |-> "Set", client_id |-> id, request_id |-> request_id, content |-> content]

GetSetOk == [tag |-> "Ok"]

GetSetError(s) == [tag |-> "Error", message |-> s]

GetSetName(s) == [tag |-> "Name", name |-> s]

GetSetPeers(ps) == [tag |-> "Peers", peers |-> ps]

GetSetConnect(a) == [tag |-> "Connect", address |-> a]

\* enum Service (src/message.rs)
SERVICE_SERVICE == 1
SERVICE_CHAT == 1025
SERVICE_FILE == 1026

\* messages of the later revision of the protocol (src/message.rs)
GetSetServicesTag(t) == [tag |-> "ServicesTag", services_tag |-> t]

MsgMessage(to_peer, from_peer, to_client, from_client, service, content) ==
    [type |-> "Message", to_peer |-> to_peer, from_peer |-> from_peer,
     to_client |-> to_client, from_client |-> from_client,
     service |-> service, content |-> content]

MsgEvent(to_client, from_client, event) ==
    [type |-> "Event", to_client |-> to_client, from_client |-> from_client,
     event |-> event]

EventServiceUpdate(s, map) == [type |-> "ServiceUpdate", service |-> s, peers |-> map]

EventClientUpdate(add, id, services) ==
    [type |-> "ClientUpdate", add |-> add, id |-> id, services |-> services]

EventPeerUpdate(peer_info) == [type |-> "PeerUpdate", peer_info |-> peer_info]

\* Event of the daemon (enum Event)
EvAddClient(id, k) == [type |-> "AddClient", id |-> id, sender |-> k]

EvRemoveClient(id) == [type |-> "RemoveClient", id |-> id]

\* conn is not a field of the event: it records the handler that sent it
EvClientMessage(k, id, msg) ==
    [type |-> "ClientMessage", id |-> id, msg |-> msg, conn |-> k]

\* ClientInfo as AddClient creates it
NewClientInfo(k) == [sender |-> k, chat_support |-> FALSE, file_support |-> FALSE]

(***************************************************************************)
(* Events of the swarm (src/swarm.rs, enum Event)                          *)
(***************************************************************************)
SwSetChat(b) == [type |-> "SetChat", value |-> b]

SwSetFiles(b) == [type |-> "SetFiles", value |-> b]

SwSetName(n) == [type |-> "SetName", name |-> n]

SwConnectAddress(a) == [type |-> "ConnectAddress", address |-> a]

\* Event::SetServicesTag of the overlay in src/daemon/swarm.rs
SwSetServicesTag(tag) == [type |-> "SetServicesTag", tag |-> tag]

SwSendChatMessage(to, m) == [type |-> "SendChatMessage", to |-> to, message |-> m]

SwSendFileMessage(to_peer, to_client, from_client, content) ==
    [type |-> "SendFileMessage", to_peer |-> to_peer, to_client |-> to_client,
     from_client |-> from_client, content |-> content]

\* PeerInfo as the gossip handler builds it from an announcement
NewPeerInfo(peer_id, name, chat, files, t) ==
    [peer_id |-> peer_id, name |-> name, chat_support |-> chat,
     file_support |-> files, last_update |-> t]

\* the elements of a set in some order (the iteration order of a HashMap)
RECURSIVE SetToSeq(_)
SetToSeq(S) ==
    IF S = {} THEN <<>>
    ELSE LET x == CHOOSE y \in S : TRUE IN <<x>> \o SetToSeq(S \ {x})

(***************************************************************************)
(* Connection handlers: Daemon::handle_client                              *)
(***************************************************************************)
Conns == 1..Len(conns)

\* the receiving end of a handler's channel exists while its loop runs
ReceiverOpen(k) == conns[k].st = "running"

\* some Sender of handler k's channel still exists: in an AddClient event on
\* its way to the router, or in the ClientInfo the router made of it
SenderExists(k) ==
    \/ \E i \in 1..Len(from_client_rx) :
          from_client_rx[i].type = "AddClient" /\ from_client_rx[i].sender = k
    \/ \E id \in DOMAIN clients : clients[id].sender = k

\* a handle_connection that only increments the id
handle_connection_no_skip(cap) ==
    /\ running
    /\ Len(conns) < cap
    /\ conns' = Append(conns, [id |-> client_id, st |-> "spawned"])
    /\ outbox' = Append(outbox, <<>>)
    /\ wire' = <<>>
    /\ client_id' = client_id + 1
    /\ to_swarm' = <<>>
    /\ UNCHANGED <<clients, peers, from_client_rx, running, now, timer>>
    /\ UNCHANGED clientVars

\* Daemon::handle_connection: spawn a handler with the current client id and
\* advance the id, skipping ALL_CLIENTS
handle_connection(cap) ==
    /\ running
    /\ Len(conns) < cap
    /\ conns' = Append(conns, [id |-> client_id, st |-> "spawned"])
    /\ outbox' = Append(outbox, <<>>)
    /\ wire' = <<>>
    /\ client_id' = IF client_id + 1 = ALL_CLIENTS THEN 1 ELSE client_id + 1
    /\ to_swarm' = <<>>
    /\ UNCHANGED <<clients, peers, from_client_rx, running, now, timer>>
    /\ UNCHANGED clientVars

\* handle_client, lines 74-78: create the channel and send AddClient
HandlerStart(k) ==
    /\ running
    /\ conns[k].st = "spawned"
    /\ from_client_rx' = Append(from_client_rx, EvAddClient(conns[k].id, k))
    /\ conns' = [conns EXCEPT ![k].st = "running"]
    /\ to_swarm' = <<>>
    /\ wire' = <<>>
    /\ UNCHANGED <<client_id, clients, peers, running, outbox, now, timer>>
    /\ UNCHANGED clientVars

\* the end of handle_client (lines 117-121): the loop was left, RemoveClient is
\* sent for the handler's id, and the handler's receiver and socket are dropped
HandlerBreak(k) ==
    /\ from_client_rx' = Append(from_client_rx, EvRemoveClient(conns[k].id))
    /\ conns' = [conns EXCEPT ![k].st = "closed"]
    /\ outbox' = [outbox EXCEPT ![k] = <<>>]
    /\ wire' = <<>>

\* a channel that yields its newest message first
NextMessageNewest(k) == outbox[k][Len(outbox[k])]

\* the message client_receiver.next() yields, which send_message writes
NextMessage(k) == Head(outbox[k])

\* what is left in the channel after client_receiver.next()
AfterNext(k) == Tail(outbox[k])

\* handle_client, lines 83-92: take the next message of the channel and write
\* it to the client's socket
HandlerWrite(k) ==
    /\ running
    /\ ReceiverOpen(k)
    /\ outbox[k] # <<>>
    /\ wire' = <<k, NextMessage(k)>>
    /\ outbox' = [outbox EXCEPT ![k] = AfterNext(k)]
    /\ to_swarm' = <<>>
    /\ UNCHANGED <<client_id, clients, peers, from_client_rx, running, conns, now, timer>>
    /\ UNCHANGED clientVars

\* handle_client, lines 88-91: writing to the socket fails
HandlerWriteErr(k) ==
    /\ running
    /\ ReceiverOpen(k)
    /\ outbox[k] # <<>>
    /\ HandlerBreak(k)
    /\ to_swarm' = <<>>
    /\ UNCHANGED <<client_id, clients, peers, running, now, timer>>
    /\ UNCHANGED clientVars

\* handle_client, line 93: the channel is empty and every Sender is gone
HandlerNone(k) ==
    /\ running
    /\ ReceiverOpen(k)
    /\ outbox[k] = <<>>
    /\ ~SenderExists(k)
    /\ HandlerBreak(k)
    /\ to_swarm' = <<>>
    /\ UNCHANGED <<client_id, clients, peers, running, now, timer>>
    /\ UNCHANGED clientVars

\* handle_client, lines 98-107: a frame of the client is received and
\* forwarded to the router
HandlerRecv(k, msg) ==
    /\ running
    /\ ReceiverOpen(k)
    /\ Len(from_client_rx) < MaxQueue
    /\ from_client_rx' = Append(from_client_rx, EvClientMessage(k, conns[k].id, msg))
    /\ to_swarm' = <<>>
    /\ wire' = <<>>
    /\ UNCHANGED <<client_id, clients, peers, running, conns, outbox, now, timer>>
    /\ UNCHANGED clientVars

\* handle_client, lines 108-111: EOF or an error on the client's socket
HandlerRecvErr(k) ==
    /\ running
    /\ ReceiverOpen(k)
    /\ HandlerBreak(k)
    /\ to_swarm' = <<>>
    /\ UNCHANGED <<client_id, clients, peers, running, now, timer>>
    /\ UNCHANGED clientVars

(***************************************************************************)
(* The router: Daemon::run_server_loop                                     *)
(***************************************************************************)
\* seconds after which a peer entry is removed (handle_timer)
PEER_TTL == 30
\* seconds between two runs of handle_timer (the Delay of run_server_loop)
REAPER_PERIOD == 5

\* the FileMessage the helper `send` builds (lines 237-243)
FileFrame(from_peer, to_client, from_client, content) ==
    MsgFileMessage("", from_peer, to_client, from_client, content)

\* the helper `send` (lines 230-248): enqueue on the client's channel; a
\* closed channel is an error that is logged
send(ob, client, frame) ==
    IF ReceiverOpen(client.sender)
    THEN [ob EXCEPT ![client.sender] = Append(@, frame)]
    ELSE ob

\* a broadcast loop without the file_support test
FileTargetsAll == DOMAIN clients

\* the clients the loop of lines 252-257 sends a broadcast file message to

FileTargets == {id \in DOMAIN clients : clients[id].file_support}

\* lines 252-257: `send` to every client of the set ids, one after the other
RECURSIVE SendEach(_, _, _)
SendEach(ob, ids, frame) ==
    IF ids = {} THEN ob
    ELSE LET id == CHOOSE x \in ids : TRUE
         IN SendEach(send(ob, clients[id], frame), ids \ {id}, frame)

\* the outboxes after the FileMessage arm (lines 228-267)
RouteFileMessage(from_peer, from_client, to_client, content) ==
    LET frame == FileFrame(from_peer, to_client, from_client, content)
    IN IF to_client = ALL_CLIENTS
       THEN SendEach(outbox, FileTargets, frame)
       ELSE IF to_client \in DOMAIN clients
            THEN send(outbox, clients[to_client], frame)
            ELSE outbox

\* the number of frames in the channels ob
RECURSIVE InFlight(_, _)
InFlight(ob, k) ==
    IF k = 0 THEN 0 ELSE Len(ob[k]) + InFlight(ob, k - 1)

\* the frames in flight stay within the model's cap
OutboxesCapped(ob) == InFlight(ob, Len(ob)) <= MaxFrames

\* run_server_loop, swarm::Event::FileMessage (lines 228-267)
SwarmFileMessage(from_peer, from_client, to_client, content) ==
    /\ running
    /\ outbox' = RouteFileMessage(from_peer, from_client, to_client, content)
    /\ OutboxesCapped(outbox')
    /\ to_swarm' = <<>>
    /\ wire' = <<>>
    /\ UNCHANGED <<client_id, clients, peers, from_client_rx, running, conns, now, timer>>
    /\ UNCHANGED clientVars

\* run_server_loop, Event::AddClient (lines 282-295): an occupied id keeps its
\* entry and the new Sender is dropped
AddClient(id, k) ==
    /\ clients' = IF id \in DOMAIN clients THEN clients
                  ELSE MapPut(clients, id, NewClientInfo(k))
    /\ to_swarm' = <<>>
    /\ UNCHANGED <<outbox, running>>

\* run_server_loop, Event::RemoveClient (lines 298-316)
RemoveClient(id) ==
    /\ clients' = MapDel(clients, id)
    /\ to_swarm' = << SwSetChat(\E c \in DOMAIN clients' : clients'[c].chat_support),
                      SwSetFiles(\E c \in DOMAIN clients' : clients'[c].file_support) >>
    /\ UNCHANGED <<outbox, running>>

\* the peers a chat or file message to "all" goes to (lines 373, 400)
ChatPeers == SetToSeq({p \in DOMAIN peers : peers[p].chat_support})

FilePeers == SetToSeq({p \in DOMAIN peers : peers[p].file_support})

\* the Peers reply (lines 364, 440): the values of the peer table
PeerList == {peers[p] : p \in DOMAIN peers}

NoReply == [type |-> "none"]

\* the reply of the match of lines 332-479 (NoReply: `continue`)
Reply(id, msg) ==
    CASE msg.type = "Ok" -> MsgOk
      [] msg.type = "Error" -> NoReply
      [] msg.type = "ConnectAddress" -> MsgOk
      [] msg.type = "GetName" -> MsgError("Not yet implemented")
      [] msg.type = "SetName" -> MsgOk
      [] msg.type = "GetPeers" -> [type |-> "GetPeers", peers |-> PeerList]
      [] msg.type = "ChatMessage" -> MsgOk
      [] msg.type = "FileMessage" -> MsgOk
      [] msg.type = "Register" -> MsgRegisterOk(id)
      [] msg.type = "Get" ->
            MsgGet(msg.client_id, msg.request_id,
                   CASE msg.content.tag = "Name" -> GetSetError("Not yet implemented")
                     [] msg.content.tag = "Peers" -> GetSetPeers(PeerList)
                     [] OTHER -> GetSetError("Unknown get request"))
      [] msg.type = "Set" ->
            MsgSet(msg.client_id, msg.request_id,
                   CASE msg.content.tag = "Name" -> GetSetOk
                     [] msg.content.tag = "Connect" -> GetSetOk
                     [] OTHER -> GetSetError("Unknown set request"))
      [] OTHER -> NoReply

\* the events the match of lines 332-479 sends to the swarm
SwarmEvents(msg) ==
    CASE msg.type = "ConnectAddress" -> <<SwConnectAddress(msg.address)>>
      [] msg.type = "SetName" -> <<SwSetName(msg.name)>>
      [] msg.type = "ChatMessage" ->
            IF msg.to = "all"
            THEN [i \in 1..Len(ChatPeers) |-> SwSendChatMessage(ChatPeers[i], msg.message)]
            ELSE <<SwSendChatMessage(msg.to, msg.message)>>
      [] msg.type = "FileMessage" ->
            IF msg.to_peer = "all"
            THEN [i \in 1..Len(FilePeers) |->
                    SwSendFileMessage(FilePeers[i], msg.to_client, msg.from_client,
                                      msg.content)]
            ELSE <<SwSendFileMessage(msg.to_peer, msg.to_client, msg.from_client,
                                     msg.content)>>
      [] msg.type = "Register" -> <<SwSetChat(msg.chat), SwSetFiles(msg.files)>>
      [] msg.type = "Set" /\ msg.content.tag = "Name" -> <<SwSetName(msg.content.name)>>
      [] msg.type = "Set" /\ msg.content.tag = "Connect" ->
            <<SwConnectAddress(msg.content.address)>>
      [] OTHER -> <<>>

\* run_server_loop, Event::ClientMessage (lines 319-486): an unknown id is
\* skipped; the reply goes to the channel of the ClientInfo found under id; a
\* closed channel makes run_server_loop return
ClientMessage(id, msg) ==
    IF id \notin DOMAIN clients
    THEN /\ to_swarm' = <<>>
         /\ UNCHANGED <<clients, outbox, running>>
    ELSE LET reply == Reply(id, msg)
             k == clients[id].sender
         IN /\ clients' = IF msg.type = "Register"
                          THEN [clients EXCEPT ![id].chat_support = msg.chat,
                                               ![id].file_support = msg.files]
                          ELSE clients
            /\ to_swarm' = SwarmEvents(msg)
            /\ IF reply = NoReply
               THEN UNCHANGED <<outbox, running>>
               ELSE IF ReceiverOpen(k)
                    THEN /\ outbox' = [outbox EXCEPT ![k] = Append(@, reply)]
                         /\ UNCHANGED running
                    ELSE /\ running' = FALSE
                         /\ UNCHANGED outbox

\* run_server_loop, lines 275-488: take the next event of the clients' channel
RouterEvent ==
    /\ running
    /\ from_client_rx # <<>>
    /\ LET event == Head(from_client_rx)
       IN CASE event.type = "AddClient" -> AddClient(event.id, event.sender)
            [] event.type = "RemoveClient" -> RemoveClient(event.id)
            [] OTHER -> ClientMessage(event.id, event.msg)
    /\ OutboxesCapped(outbox')
    /\ from_client_rx' = Tail(from_client_rx)
    /\ wire' = <<>>
    /\ UNCHANGED <<client_id, peers, conns, now, timer>>
    /\ UNCHANGED clientVars

(***************************************************************************)
(* The peer table, the clock and the reaper timer                          *)
(***************************************************************************)
\* Duration::as_secs of the clock at tick t: whole seconds, truncated
as_secs(t) == t \div TicksPerSec

\* the clock advances by one tick; the Delay fires on time, and the events
\* of a tick are handled within the tick
Tick ==
    /\ running
    /\ now < timer
    /\ now < MaxTime * TicksPerSec
    /\ from_client_rx = <<>>
    /\ \A k \in Conns : outbox[k] = <<>>
    /\ now' = now + 1
    /\ to_swarm' = <<>>
    /\ wire' = <<>>
    /\ UNCHANGED <<client_id, clients, peers, from_client_rx, running, conns, outbox, timer>>
    /\ UNCHANGED clientVars

\* a reaper that also removes the entries that are exactly PEER_TTL old
ExpiredEarly(peer, current_secs) == current_secs - peer.last_update >= PEER_TTL

\* handle_timer, line 150: the test that selects the entries to remove
Expired(peer, current_secs) == current_secs - peer.last_update > PEER_TTL

\* a handle_timer that also removes the entries that are PEER_TTL seconds old
handle_timer_at_ttl(ps, current_secs) ==
    [p \in {q \in DOMAIN ps : current_secs - ps[q].last_update < PEER_TTL} |-> ps[p]]

\* handle_timer (lines 142-157): the peer table without its old entries
handle_timer(ps, current_secs) ==
    [p \in {q \in DOMAIN ps : ~Expired(ps[q], current_secs)} |-> ps[p]]

\* run_server_loop, the timer arm (lines 175-180): a new Delay of
\* REAPER_PERIOD seconds, then handle_timer
Timer ==
    /\ running
    /\ now >= timer
    /\ timer' = now + REAPER_PERIOD * TicksPerSec
    /\ peers' = handle_timer(peers, as_secs(now))
    /\ to_swarm' = <<>>
    /\ wire' = <<>>
    /\ UNCHANGED <<client_id, clients, from_client_rx, running, conns, outbox, now>>
    /\ UNCHANGED clientVars

\* the announcement of a peer arrives: the gossip handler stamps it with
\* the clock's seconds (behaviour.rs, lines 107-115) and the router stores
\* it in place of the peer's entry (daemon.rs, lines 192-202)
AnnouncePeer(peer_id, files) ==
    /\ running
    /\ peers' = MapPut(peers, peer_id,
                       NewPeerInfo(peer_id, "", FALSE, files, as_secs(now)))
    /\ to_swarm' = <<>>
    /\ wire' = <<>>
    /\ UNCHANGED <<client_id, clients, from_client_rx, running, conns, outbox, now, timer>>
    /\ UNCHANGED clientVars

\* the request of a client for the peer table
GetPeersFrame == MsgGet(1, 1, GetSetPeers({}))

\* a client asks for the peer table once its last request is answered
ClientGetPeers(k) ==
    /\ outbox[k] = <<>>
    /\ from_client_rx = <<>>
    /\ HandlerRecv(k, GetPeersFrame)

(***************************************************************************)
(* The file client (src/client/file/client.rs): a transfer                 *)
(***************************************************************************)
\* size of data in a chunk in bytes
CHUNK_SIZE == 512

\* idle timeout of a transfer in seconds
IDLE_TIMEOUT == 30

\* Option<T>
None == <<>>

Some(x) == <<x>>

\* enum FileMessage
FmGet(id, file) == [type |-> "Get", id |-> id, file |-> file, data |-> <<>>]

FmChunk(id, data) == [type |-> "Chunk", id |-> id, file |-> "", data |-> data]

FmChunkAck(id) == [type |-> "ChunkAck", id |-> id, file |-> "", data |-> <<>>]

\* enum FTState
St(tag) == [tag |-> tag, msg |-> ""]

StError(msg) == [tag |-> "Error", msg |-> msg]

\* FileTransfer::new at second secs; created_at and completed_at, which only
\* get_data_rate reads, are left out
NewFileTransfer(id, from, to, file, secs) ==
    [id |-> id, from |-> from, to |-> to, file |-> file, state |-> St("New"),
     io |-> None, last_active |-> secs, num_bytes |-> 0]

is_done(t) == t.state.tag = "Done"

is_error(t) == t.state.tag = "Error"

\* reset_timeout
reset_timeout(t, secs) == [t EXCEPT !.last_active = secs]

\* a complete that also sets the state of a transfer that has ended
complete_ended_too(t, error, secs) ==
    [t EXCEPT !.io = None,
              !.state = IF error = None THEN St("Done") ELSE StError(error[1])]

\* complete (lines 133-147); error is an Option<String>
complete(t, error, secs) ==
    IF is_done(t) \/ is_error(t) THEN t
    ELSE [t EXCEPT !.io = None,
                   !.state = IF error = None THEN St("Done") ELSE StError(error[1])]

\* a check that spares the transfers that wait for an acknowledgement
check_timeout_not_waiting(t, secs) ==
    IF is_done(t) \/ is_error(t) \/ t.state.tag \in {"WaitAck", "WaitLastAck"} THEN t
    ELSE IF secs - t.last_active > IDLE_TIMEOUT THEN complete(t, Some("Timeout"), secs)
    ELSE t

\* a timeout that is one second early
IdleTooLongEarly(t, secs) == secs - t.last_active >= IDLE_TIMEOUT

\* check_timeout, line 126: the idle test
IdleTooLong(t, secs) == secs - t.last_active > IDLE_TIMEOUT

\* check_timeout (lines 118-130)
check_timeout(t, secs) ==
    IF is_done(t) \/ is_error(t) THEN t
    ELSE IF IdleTooLong(t, secs) THEN complete(t, Some("Timeout"), secs)
    ELSE t

\* cancel (lines 150-152)
cancel(t, secs) == complete(t, Some("Canceled by user"), secs)

is_upload(t) == t.from = ""

\* a transfer that takes messages from every peer
is_valid_sender_any(t, from) == TRUE

\* is_valid_sender (lines 176-190)
is_valid_sender(t, from) == IF is_upload(t) THEN from = t.to ELSE from = t.from

\* a handle_upload that keeps waiting after the ChunkAck of the last chunk
handle_upload_keeps_waiting(t, message, secs) ==
    IF message.type # "ChunkAck" THEN t
    ELSE IF t.state.tag = "WaitAck" THEN [t EXCEPT !.state = St("SendChunk")]
    ELSE t

\* a handle_upload that completes on the ChunkAck of any chunk
handle_upload_any_ack(t, message, secs) ==
    IF message.type # "ChunkAck" THEN t
    ELSE IF t.state.tag \in {"WaitAck", "WaitLastAck"} THEN complete(t, None, secs)
    ELSE t

\* handle_upload (lines 193-208)
handle_upload(t, message, secs) ==
    IF message.type # "ChunkAck" THEN t
    ELSE IF t.state.tag = "WaitAck" THEN [t EXCEPT !.state = St("SendChunk")]
    ELSE IF t.state.tag = "WaitLastAck" THEN complete(t, None, secs)
    ELSE t

\* what the file system does in a step: every operation succeeds, opening
\* or creating a file fails, or reading or writing fails
IoOutcomes == {"ok", "open_fails", "rw_fails"}

Min(a, b) == IF a < b THEN a ELSE b

\* Path::file_name of the plain file names of the model
file_name(file) == file

\* fs::File: an open file and the position of its next read or write
FileHandle(name) == [name |-> name, pos |-> 0]

\* a write that starts at the beginning of the file every time
write_next_chunk_rewind(t, d, chunk, secs, io) ==
    LET t1 == [reset_timeout(t, secs) EXCEPT !.num_bytes = @ + Len(chunk)]
    IN IF t1.io # None /\ io # "rw_fails"
       THEN [t |-> t1, d |-> [d EXCEPT ![t1.io[1].name] = chunk], ok |-> TRUE]
       ELSE [t |-> t1, d |-> d, ok |-> FALSE]

\* write_next_chunk (lines 277-285) on the directory d; ok tells whether
\* Some(()) is returned
write_next_chunk(t, d, chunk, secs, io) ==
    LET t1 == [reset_timeout(t, secs) EXCEPT !.num_bytes = @ + Len(chunk)]
    IN IF t1.io # None /\ io # "rw_fails"
       THEN LET h == t1.io[1]
            IN [t |-> [t1 EXCEPT !.io = Some([h EXCEPT !.pos = @ + Len(chunk)])],
                d |-> [d EXCEPT ![h.name] = SubSeq(@, 1, h.pos) \o chunk],
                ok |-> TRUE]
       ELSE [t |-> t1, d |-> d, ok |-> FALSE]

\* a download that takes a chunk of exactly CHUNK_SIZE bytes for the last one
IsLastChunkLoose(data) == Len(data) <= CHUNK_SIZE

\* handle_download, line 223: a chunk shorter than CHUNK_SIZE is the last one
IsLastChunk(data) == Len(data) < CHUNK_SIZE

\* an upload that takes a read of exactly CHUNK_SIZE bytes for the last one
IsShortReadLoose(data) == Len(data) <= CHUNK_SIZE

\* next_chunk_message, line 292: a read shorter than CHUNK_SIZE is the last one
IsShortRead(data) == Len(data) < CHUNK_SIZE

\* a download that takes a chunk in whatever state it is
handle_download_any_state(t, d, message, secs, io) ==
    IF message.type # "Chunk"
    THEN [t |-> t, d |-> d]
    ELSE LET st == IF IsLastChunk(message.data) THEN St("SendLastAck") ELSE St("SendAck")
             w == write_next_chunk([t EXCEPT !.state = st], d, message.data, secs, io)
         IN IF w.ok THEN [t |-> w.t, d |-> w.d]
            ELSE [t |-> [w.t EXCEPT !.state = StError("Error writing file")], d |-> w.d]

\* handle_download (lines 211-229)
handle_download(t, d, message, secs, io) ==
    IF message.type # "Chunk" \/ t.state.tag # "WaitChunk"
    THEN [t |-> t, d |-> d]
    ELSE LET st == IF IsLastChunk(message.data) THEN St("SendLastAck") ELSE St("SendAck")
             w == write_next_chunk([t EXCEPT !.state = st], d, message.data, secs, io)
         IN IF w.ok THEN [t |-> w.t, d |-> w.d]
            ELSE [t |-> [w.t EXCEPT !.state = StError("Error writing file")], d |-> w.d]

\* handle (lines 232-238)
handle(t, d, message, secs, io) ==
    IF is_upload(t) THEN [t |-> handle_upload(t, message, secs), d |-> d]
    ELSE handle_download(t, d, message, secs, io)

\* open_read_file (lines 241-246)
open_read_file(t, d, io) ==
    IF t.io = None /\ t.file \in DOMAIN d /\ io # "open_fails"
    THEN Some(FileHandle(t.file))
    ELSE None

\* open_write_file (lines 249-259): the handle, None if the file exists or
\* cannot be created
open_write_file(t, d, io) ==
    IF t.io = None /\ file_name(t.file) \notin DOMAIN d /\ io # "open_fails"
    THEN Some(FileHandle(file_name(t.file)))
    ELSE None

\* read_next_chunk (lines 262-274): the transfer and the Option of the data
read_next_chunk(t, d, secs, io) ==
    LET t1 == reset_timeout(t, secs)
    IN IF t1.io # None /\ io # "rw_fails"
       THEN LET h == t1.io[1]
                buf == SubSeq(d[h.name], h.pos + 1,
                              Min(h.pos + CHUNK_SIZE, Len(d[h.name])))
            IN [t |-> [t1 EXCEPT !.io = Some([h EXCEPT !.pos = @ + Len(buf)]),
                                 !.num_bytes = @ + Len(buf)],
                data |-> Some(buf)]
       ELSE [t |-> t1, data |-> None]

\* next_chunk_message (lines 288-299)
next_chunk_message(t, d, secs, io) ==
    LET r == read_next_chunk([t EXCEPT !.state = St("WaitAck")], d, secs, io)
    IN IF r.data # None
       THEN [t |-> IF IsShortRead(r.data[1])
                   THEN [r.t EXCEPT !.state = St("WaitLastAck")]
                   ELSE r.t,
             d |-> d,
             out |-> Some(FmChunk(t.id, r.data[1]))]
       ELSE [t |-> [r.t EXCEPT !.state = StError("Error reading file")],
             d |-> d, out |-> None]

\* next (lines 302-350): the transfer, the directory and the Option of the
\* next outgoing message
next(t, d, secs, io) ==
    CASE t.state.tag = "New" /\ is_upload(t) ->
           LET h == open_read_file(t, d, io)
           IN IF h = None
              THEN [t |-> [t EXCEPT !.state = StError("Error opening file")],
                    d |-> d, out |-> None]
              ELSE next_chunk_message([t EXCEPT !.io = h], d, secs, io)
      [] t.state.tag = "New" /\ ~is_upload(t) ->
           LET h == open_write_file(t, d, io)
           IN IF h = None
              THEN [t |-> [t EXCEPT !.state = StError("Error opening file")],
                    d |-> d, out |-> None]
              ELSE [t |-> [t EXCEPT !.io = h, !.state = St("WaitChunk")],
                    d |-> MapPut(d, h[1].name, <<>>),
                    out |-> Some(FmGet(t.id, t.file))]
      [] t.state.tag = "SendChunk" -> next_chunk_message(t, d, secs, io)
      [] t.state.tag = "SendAck" ->
           [t |-> [t EXCEPT !.state = St("WaitChunk")], d |-> d,
            out |-> Some(FmChunkAck(t.id))]
      [] t.state.tag = "SendLastAck" ->
           [t |-> complete(t, None, secs), d |-> d, out |-> Some(FmChunkAck(t.id))]
      [] OTHER -> [t |-> t, d |-> d, out |-> None]

(***************************************************************************)
(* The file client: struct FileClient and its loop                         *)
(***************************************************************************)
\* the peers that run a file client
FTSides == {"P1", "P2"}

\* the values new_id draws (rand::random::<u32>() in the source)
FTIds == {1, 2}

\* the client id the daemon gave a file client in RegisterOk
FtClientId == 1

\* the byte at position i of a shared file
FileByte(i) == (7 * i + 3) % 251

\* a file of n bytes
FileContent(n) == [i \in 1..n |-> FileByte(i)]

\* the sizes of the shared file: around every multiple of CHUNK_SIZE
FileSizes ==
    {k * CHUNK_SIZE + r : k \in 0..MaxChunks, r \in {0, 1, CHUNK_SIZE - 1}}

\* is_shared (lines 725-732)
is_shared(sh, file) == \E x \in sh : x[1] = file

\* a handle_get_request that accepts the id of a transfer it holds
handle_get_request_any_id(tr, sh, file, id, from, secs) ==
    IF ~is_shared(sh, file) THEN tr
    ELSE MapPut(tr, id, NewFileTransfer(id, "", from, file, secs))

\* handle_get_request (lines 755-769): the transfers after a Get
handle_get_request(tr, sh, file, id, from, secs) ==
    IF id \in DOMAIN tr \/ ~is_shared(sh, file) THEN tr
    ELSE MapPut(tr, id, NewFileTransfer(id, "", from, file, secs))

\* the reply of handle_daemon_message_file (lines 482-495)
FileReply(from_peer, from_client, out) ==
    IF out = None THEN None
    ELSE Some(MsgMessage(from_peer, "", from_client, FtClientId, SERVICE_FILE, out[1]))

\* handle_daemon_message_file (lines 430-496): the transfers, the directory
\* and the Option of the reply
handle_daemon_message_file(tr, sh, d, from_peer, from_client, fm, secs, io) ==
    CASE fm.type = "Get" ->
           LET tr1 == handle_get_request(tr, sh, fm.file, fm.id, from_peer, secs)
           IN IF fm.id \in DOMAIN tr1
              THEN LET n == next(tr1[fm.id], d, secs, io)
                   IN [tr |-> [tr1 EXCEPT ![fm.id] = n.t], d |-> n.d,
                       reply |-> FileReply(from_peer, from_client, n.out)]
              ELSE [tr |-> tr1, d |-> d, reply |-> None]
      [] fm.type \in {"Chunk", "ChunkAck"} ->
           IF fm.id \in DOMAIN tr /\ is_valid_sender(tr[fm.id], from_peer)
           THEN LET h == handle(tr[fm.id], d, fm, secs, io)
                    n == next(h.t, h.d, secs, io)
                IN [tr |-> [tr EXCEPT ![fm.id] = n.t], d |-> n.d,
                    reply |-> FileReply(from_peer, from_client, n.out)]
           ELSE [tr |-> tr, d |-> d, reply |-> None]
      [] OTHER -> [tr |-> tr, d |-> d, reply |-> None]

\* handle_daemon_message_message (lines 499-516)
handle_daemon_message_message(tr, sh, d, m, secs, io) ==
    IF m.to_client # FtClientId \/ m.service # SERVICE_FILE
    THEN [tr |-> tr, d |-> d, reply |-> None]
    ELSE handle_daemon_message_file(tr, sh, d, m.from_peer, m.from_client,
                                    m.content, secs, io)

\* the daemons and the overlay between two file clients: a message of the
\* client on peer s arrives at the peer it names, stamped with its sender
Transport(n, s, reply) ==
    IF reply # None /\ reply[1].to_peer \in FTSides
    THEN [n EXCEPT ![reply[1].to_peer] =
            Append(@, [reply[1] EXCEPT !.to_peer = "", !.from_peer = s])]
    ELSE n

\* what a client wrote to its daemon
Sent(s, reply) ==
    IF reply = None THEN <<>> ELSE <<[side |-> s, msg |-> reply[1]]>>

\* the record of the Chunk messages the clients wrote: per client and
\* transfer id the lengths of the chunks, in the order they were written
LogChunks(log, sent) ==
    IF sent # <<>> /\ sent[1].msg.content.type = "Chunk"
    THEN [log EXCEPT ![sent[1].side][sent[1].msg.content.id] =
            Append(@, Len(sent[1].msg.content.data))]
    ELSE log

\* all the router's state but the clock
routerNoClock == <<client_id, clients, peers, from_client_rx, running, to_swarm,
                   conns, outbox, wire, timer>>

\* FileClient::run, a message of the daemon (lines 405-409) and
\* handle_daemon_message (lines 544-576)
FTReceive(s, io) ==
    /\ net[s] # <<>>
    /\ \E r \in {handle_daemon_message_message(transfers[s], shares[s], disk[s],
                                                Head(net[s]), as_secs(now), io)} :
          /\ transfers' = [transfers EXCEPT ![s] = r.tr]
          /\ disk' = [disk EXCEPT ![s] = r.d]
          /\ net' = Transport([net EXCEPT ![s] = Tail(@)], s, r.reply)
          /\ ft_sent' = Sent(s, r.reply)
          /\ ft_chunks' = LogChunks(ft_chunks, Sent(s, r.reply))
    /\ UNCHANGED <<shares, env_steps, routerVars, dirVars, ioVars>>

\* handle_user_command_get (lines 608-649) with the id new_id returns
FTUserGet(s, peer, to_client, file, id, io) ==
    /\ id \notin DOMAIN transfers[s]
    /\ LET n == next(NewFileTransfer(id, peer, "", file, as_secs(now)),
                     disk[s], as_secs(now), io)
           m == FileReply(peer, to_client, n.out)
       IN /\ transfers' = [transfers EXCEPT ![s] = MapPut(@, id, n.t)]
          /\ disk' = [disk EXCEPT ![s] = n.d]
          /\ net' = Transport(net, s, m)
          /\ ft_sent' = Sent(s, m)
          /\ ft_chunks' = LogChunks(ft_chunks, Sent(s, m))
    /\ UNCHANGED <<shares, env_steps, routerVars, dirVars, ioVars>>

\* handle_user_command_cancel (lines 674-683)
FTUserCancel(s, id) ==
    /\ transfers' =
         IF id \in DOMAIN transfers[s]
         THEN [transfers EXCEPT ![s][id] = cancel(@, as_secs(now))]
         ELSE transfers
    /\ ft_sent' = <<>>
    /\ UNCHANGED <<shares, disk, net, env_steps, ft_chunks, routerVars, dirVars, ioVars>>

\* FileClient::run, the timer arm (lines 418-424)
FTTimer(s) ==
    /\ transfers' = [transfers EXCEPT ![s] =
                       [id \in DOMAIN @ |-> check_timeout(@[id], as_secs(now))]]
    /\ ft_sent' = <<>>
    /\ UNCHANGED <<shares, disk, net, env_steps, ft_chunks, routerVars, dirVars, ioVars>>

\* the clock of the file clients advances by secs seconds
FTAdvance(secs) ==
    /\ env_steps < MaxEnvSteps
    /\ env_steps' = env_steps + 1
    /\ now' = now + secs * TicksPerSec
    /\ ft_sent' = <<>>
    /\ UNCHANGED <<transfers, shares, disk, net, ft_chunks, routerNoClock, dirVars, ioVars>>

\* time passes: the clock of the file clients advances past the idle timeout
\* while a transfer is left that is neither ended nor overdue
FTElapse ==
    /\ \E s \in FTSides : \E id \in DOMAIN transfers[s] :
          /\ ~is_done(transfers[s][id]) /\ ~is_error(transfers[s][id])
          /\ as_secs(now) - transfers[s][id].last_active <= IDLE_TIMEOUT
    /\ now' = now + (IDLE_TIMEOUT + 1) * TicksPerSec
    /\ ft_sent' = <<>>
    /\ UNCHANGED <<transfers, shares, disk, net, env_steps, ft_chunks, routerNoClock, dirVars, ioVars>>

\* any file message arrives at the client on peer s under the name of peer
\* from_peer
FTInject(s, from_peer, fm) ==
    /\ env_steps < MaxEnvSteps
    /\ env_steps' = env_steps + 1
    /\ Len(net[s]) < MaxQueue
    /\ net' = [net EXCEPT ![s] =
                 Append(@, MsgMessage("", from_peer, FtClientId, FtClientId,
                                      SERVICE_FILE, fm))]
    /\ ft_sent' = <<>>
    /\ UNCHANGED <<transfers, shares, disk, ft_chunks, routerVars, dirVars, ioVars>>

\* peer P1 shares a file "f" of n bytes; nothing is on its way
FTInit(n) ==
    /\ transfers = [s \in FTSides |-> EmptyMap]
    /\ shares = [s \in FTSides |-> IF s = "P1" THEN {<<"f", n>>} ELSE {}]
    /\ disk = [s \in FTSides |->
                 IF s = "P1" THEN [x \in {"f"} |-> FileContent(n)] ELSE EmptyMap]
    /\ net = [s \in FTSides |-> <<>>]
    /\ ft_sent = <<>>
    /\ env_steps = 0
    /\ ft_chunks = [s \in FTSides |-> [id \in FTIds |-> <<>>]]

(***************************************************************************)
(* The service directory client (src/client/service/client.rs)             *)
(***************************************************************************)
\* the services local clients and clients of peers register
ServiceIds == {SERVICE_CHAT, SERVICE_FILE}

\* the values rand::random::<u32>() returns, at the model's tag width
Tags == 0..(2^TagBits - 1)

\* the client id the daemon gave the directory in RegisterOk
DirClientId == 1

\* the local clients the daemon reports to the directory
DirClients == {1, 2}

\* enum ServiceMessage
ServiceRequest == [type |-> "ServiceRequest"]

ServiceReply(services_tag, services) ==
    [type |-> "ServiceReply", services_tag |-> services_tag, services |-> services]

\* ServiceMap::new
NewServiceMap == [services_tag |-> 0, services |-> EmptyMap]

\* get_request_id: wrapping_add(1) at the model's width
get_request_id(request_id) == (request_id + 1) % (2^ReqBits)

\* send_message: the frame that carries a ServiceMessage to a peer
DirMessage(peer_id, to_client, message) ==
    MsgMessage(peer_id, "", to_client, DirClientId, SERVICE_SERVICE, message)

\* update_services_tag: the tag of the map services when the generator
\* returns r
NewTag(services, r) == IF DOMAIN services = {} THEN 0 ELSE r

\* update_services_tag (lines 120-132)
update_services_tag(services, r) ==
    /\ dir_local' = [services_tag |-> NewTag(services, r), services |-> services]
    /\ dir_request_id' = get_request_id(dir_request_id)
    /\ dir_sent' = <<MsgSet(DirClientId, get_request_id(dir_request_id),
                            GetSetServicesTag(NewTag(services, r)))>>

\* a directory that keeps an entry with an empty set of services
handle_event_client_update_keep_empty(add, id, services, r) ==
    /\ update_services_tag(
         IF add
         THEN MapPut(dir_local.services, id, services)
         ELSE MapDel(dir_local.services, id), r)
    /\ UNCHANGED <<dir_peers, notDirVars>>

\* handle_event_client_update (lines 179-208); r is the value of rand::random
handle_event_client_update(add, id, services, r) ==
    /\ update_services_tag(
         IF add /\ services # {}
         THEN MapPut(dir_local.services, id, services)
         ELSE MapDel(dir_local.services, id), r)
    /\ UNCHANGED <<dir_peers, notDirVars>>

\* a directory that asks a peer for its services only when it first hears
\* of it
handle_event_peer_update_new_only(peer_id, services_tag) ==
    /\ dir_peers' =
         IF peer_id \notin DOMAIN dir_peers
         THEN MapPut(dir_peers, peer_id, NewServiceMap)
         ELSE [dir_peers EXCEPT ![peer_id].services_tag = services_tag]
    /\ dir_sent' =
         IF peer_id \notin DOMAIN dir_peers
         THEN <<DirMessage(peer_id, ALL_CLIENTS, ServiceRequest)>>
         ELSE <<>>
    /\ UNCHANGED <<dir_local, dir_request_id, notDirVars>>

\* handle_event_peer_update (lines 211-242)
handle_event_peer_update(peer_id, services_tag) ==
    /\ dir_peers' =
         IF peer_id \notin DOMAIN dir_peers
         THEN MapPut(dir_peers, peer_id, NewServiceMap)
         ELSE [dir_peers EXCEPT ![peer_id].services_tag = services_tag]
    /\ dir_sent' =
         IF \/ peer_id \notin DOMAIN dir_peers
            \/ dir_peers[peer_id].services_tag # services_tag
         THEN <<DirMessage(peer_id, ALL_CLIENTS, ServiceRequest)>>
         ELSE <<>>
    /\ UNCHANGED <<dir_local, dir_request_id, notDirVars>>

\* handle_message_service_request (lines 258-269)
handle_message_service_request(from_peer, from_client) ==
    /\ dir_sent' = <<DirMessage(from_peer, from_client,
                                ServiceReply(dir_local.services_tag, dir_local.services))>>
    /\ UNCHANGED <<dir_local, dir_request_id, dir_peers, notDirVars>>

\* a map that also lists the peers without a client that supports s
PeerClientsWithEmpty(ps, s) ==
    [p \in DOMAIN ps |-> {c \in DOMAIN ps[p].services : s \in ps[p].services[c]}]

\* update_services, (1): the peers with clients that support service s, each
\* with those clients
PeerClients(ps, s) ==
    LET cl(p) == {c \in DOMAIN ps[p].services : s \in ps[p].services[c]}
    IN [p \in {q \in DOMAIN ps : cl(q) # {}} |-> cl(p)]

\* update_services (lines 135-176): one ServiceUpdate for every service s and
\* every local client that registered s
update_services(ps) ==
    LET pairs == {<<s, c>> \in ServiceIds \X DOMAIN dir_local.services :
                    s \in dir_local.services[c]}
        order == SetToSeq(pairs)
    IN [i \in 1..Len(order) |->
          MsgEvent(order[i][2], DirClientId,
                   EventServiceUpdate(order[i][1], PeerClients(ps, order[i][1])))]

\* handle_message_service_reply (lines 272-285)
handle_message_service_reply(from_peer, services_tag, services) ==
    /\ dir_peers' =
         IF from_peer \in DOMAIN dir_peers
         THEN [dir_peers EXCEPT ![from_peer] =
                 [services_tag |-> services_tag, services |-> services]]
         ELSE dir_peers
    /\ dir_sent' = update_services(dir_peers')
    /\ UNCHANGED <<dir_local, dir_request_id, notDirVars>>

\* the services maps peers report in a ServiceReply
PeerServiceMaps ==
    {EmptyMap, [c \in {1} |-> {SERVICE_FILE}], [c \in {1} |-> {SERVICE_CHAT}]}

\* UnixClient::connect: one connection of the socket (src/unix_socket.rs).
\* stream: the bytes written and not yet read; body: what send still has to
\* write after the length; need: the length receive has read (-1: none);
\* sent, refused, got and failed record the calls and what they returned
SocketInit ==
    [stream |-> <<>>, body |-> None, need |-> -1,
     sent |-> <<>>, refused |-> <<>>, got |-> <<>>, failed |-> FALSE]

\* what a handler of the overlay adapter asks of the library in one step:
\* the peers and addresses it dials, the announcements it publishes and the
\* requests it sends
NoCalls == [dial |-> {}, publish |-> <<>>, send_request |-> <<>>]

\* HiSwarm::run (src/daemon/swarm.rs, lines 392-416): the handler starts with
\* no name and tag 0.  mesh and discovered are what gossipsub's mesh_peers and
\* mdns' discovered_nodes return; tasks holds the events of the spawned tasks
\* that have not sent yet, sender the events sent to the daemon; requests
\* counts the requests of peers received
SwarmInit ==
    [node_name |-> "", services_tag |-> 0, mesh |-> {}, discovered |-> {},
     calls |-> NoCalls, tasks |-> {}, sender |-> <<>>, requests |-> 0]

IoInit == socket = SocketInit /\ swarm = SwarmInit

\* ServiceClient::new
DirInit ==
    /\ dir_local = NewServiceMap
    /\ dir_request_id = 0
    /\ dir_peers = EmptyMap
    /\ dir_sent = <<>>

\* ServiceClient::run: the loop handles one message of the daemon at a time;
\* tags are the values the generator returns and the peers announce
DirSteps(tags) ==
    \/ \E add \in BOOLEAN, id \in DirClients,
          services \in SUBSET ServiceIds, r \in tags :
          handle_event_client_update(add, id, services, r)
    \/ \E services_tag \in tags : handle_event_peer_update("P1", services_tag)
    \/ handle_message_service_request("P1", 1)
    \/ \E from_peer \in PeerIds, services_tag \in tags, services \in PeerServiceMaps :
          handle_message_service_reply(from_peer, services_tag, services)

DirNext == DirSteps(Tags)

\* the same with three of the tags: zero and two others
FewTags == {0, 1, 2}

DirNextFew == DirSteps(FewTags)

\* the frames a client sends in the router's specifications: it registers
\* without or with the file service
ClientFrames == {MsgRegister(FALSE, f) : f \in BOOLEAN}

\* Daemon::new and the first Delay of run_server_loop, at tick t
RouterInit(t) ==
    /\ client_id = 1
    /\ clients = EmptyMap
    /\ peers = EmptyMap
    /\ from_client_rx = <<>>
    /\ running = TRUE
    /\ to_swarm = <<>>
    /\ conns = <<>>
    /\ outbox = <<>>
    /\ wire = <<>>
    /\ now = t
    /\ timer = t + REAPER_PERIOD * TicksPerSec

Init == RouterInit(0) /\ DirInit /\ IoInit /\ FTInit(0)

\* the ids a file message of a peer is addressed to: the first client and all
SwarmTargets == {1, ALL_CLIENTS}

\* the steps of the handlers, the clients and the swarm
RouterSteps ==
    \/ \E k \in Conns : HandlerStart(k)
    \/ \E k \in Conns : HandlerWrite(k)
    \/ \E k \in Conns : HandlerWriteErr(k)
    \/ \E k \in Conns, msg \in ClientFrames : HandlerRecv(k, msg)
    \/ \E k \in Conns : HandlerRecvErr(k)
    \/ RouterEvent
    \/ \E to_client \in SwarmTargets, content \in Contents :
          SwarmFileMessage("P1", 1, to_client, content)

Next ==
    \/ handle_connection(MaxConns)
    \/ RouterSteps

Spec == Init /\ [][Next]_vars

\* the router with as many connections as it takes for the id counter to wrap
NextWrap ==
    \/ handle_connection(ALL_CLIENTS)
    \/ \E k \in Conns : HandlerNone(k)
    \/ RouterSteps

SpecWrap == Init /\ [][NextWrap]_vars

\* the allocation of client ids: connections are accepted until the counter
\* has wrapped and gone one further, their handlers start and the router
\* registers them
NextIds ==
    \/ handle_connection(ALL_CLIENTS + 1)
    \/ \E k \in Conns : HandlerStart(k)
    \/ RouterEvent

SpecIds == Init /\ [][NextIds]_vars

\* the peer table: one client, the clock, the reaper and the announcements
\* of two peers, the second of which is heard of in the first second only
PeersInit == (\E t \in 0..(TicksPerSec - 1) : RouterInit(t)) /\ DirInit /\ IoInit /\ FTInit(0)

PeersNext ==
    \/ handle_connection(1)
    \/ \E k \in Conns : HandlerStart(k)
    \/ \E k \in Conns : ClientGetPeers(k)
    \/ RouterEvent
    \/ \E k \in Conns : HandlerWrite(k)
    \/ Tick
    \/ Timer
    \/ \E files \in BOOLEAN : AnnouncePeer("P1", files)
    \/ as_secs(now) = 0 /\ AnnouncePeer("P2", TRUE)

SpecPeers == PeersInit /\ [][PeersNext]_vars

\* the peer table with a client that registers, as the service directory
\* does, for neither chat nor files
DirectoryRegisters(k) ==
    /\ outbox[k] = <<>>
    /\ from_client_rx = <<>>
    /\ HandlerRecv(k, MsgRegister(FALSE, FALSE))

PeersDirNext ==
    \/ PeersNext
    \/ \E k \in Conns : DirectoryRegisters(k)

SpecPeersDir == PeersInit /\ [][PeersDirNext]_vars

\* two file clients: the user of P2 downloads the shared file "f" and a file
\* "x" that is not shared, and either user cancels; messages are not lost
FTInitAny == RouterInit(0) /\ DirInit /\ IoInit /\ \E n \in FileSizes : FTInit(n)

\* the steps of the two file clients when the file system behaves as ios
FTSteps(ios, files, ids) ==
    \/ \E s \in FTSides, io \in ios : FTReceive(s, io)
    \/ \E file \in files, id \in ids, io \in ios :
          FTUserGet("P2", "P1", FtClientId, file, id, io)
    \/ \E s \in FTSides, id \in ids : FTUserCancel(s, id)

FTNext == FTSteps(IoOutcomes, {"f", "x"}, FTIds)

SpecFT == FTInitAny /\ [][FTNext]_vars

\* the file messages that arrive out of turn
AnyFileMessages ==
    {FmGet(1, "f"), FmChunk(1, <<>>), FmChunk(1, FileContent(CHUNK_SIZE)),
     FmChunkAck(1)}

\* the two file clients when any file message may arrive at any time, under
\* the name of the other client's peer or of a third peer
FTInitOne == RouterInit(0) /\ DirInit /\ IoInit /\ FTInit(CHUNK_SIZE)

FTNextAny ==
    \/ FTSteps(IoOutcomes, {"f"}, {1})
    \/ \E s \in FTSides :
          \E from_peer \in (FTSides \ {s}) \cup {"P3"}, fm \in AnyFileMessages :
             FTInject(s, from_peer, fm)

SpecFTAny == FTInitOne /\ [][FTNextAny]_vars

\* the same with a clock that advances by a second or by the idle timeout,
\* the timers of the two clients, a shared file of one full chunk and a file
\* system without errors
FTNextClock ==
    \/ FTSteps({"ok"}, {"f", "x"}, FTIds)
    \/ \E s \in FTSides : FTTimer(s)
    \/ \E secs \in {1, IDLE_TIMEOUT} : FTAdvance(secs)

SpecFTClock == FTInitOne /\ [][FTNextClock]_vars

\* one download of a file of one full chunk while the clock advances and a
\* third peer sends a Chunk or a ChunkAck with the id of a transfer the
\* client holds
StrayMessages == {FmChunk(1, <<>>), FmChunk(1, FileContent(CHUNK_SIZE)), FmChunkAck(1)}

FTNextStray ==
    \/ FTSteps({"ok"}, {"f"}, {1})
    \/ FTAdvance(1)
    \/ \E s \in FTSides, fm \in StrayMessages :
          fm.id \in DOMAIN transfers[s] /\ FTInject(s, "P3", fm)

SpecFTStray == FTInitOne /\ [][FTNextStray]_vars

\* one download of a file of one full chunk with the timers of the two
\* clients and a clock that keeps going: the loop of FileClient::run takes
\* every message its daemon delivers and its Delay fires every 5 seconds
FTNextLive ==
    \/ FTSteps(IoOutcomes, {"f"}, {1})
    \/ \E s \in FTSides : FTTimer(s)
    \/ FTElapse

SpecFTLive ==
    /\ FTInitOne
    /\ [][FTNextLive]_vars
    /\ \A s \in FTSides :
         WF_vars(\E io \in IoOutcomes : FTReceive(s, io)) /\ WF_vars(FTTimer(s))
    /\ WF_vars(FTElapse)

\* the service directory on its own
SpecDir == Init /\ [][DirNext]_vars

\* the service directory with three of the tags
SpecDirFew == Init /\ [][DirNextFew]_vars

\* the router and clients that send to the overlay: as many connections as it
\* takes for the id counter to wrap, each client sending file messages for
\* client 1 of peer P1 and the tag of its services
TagsSet == {0, 1}

SendFrames ==
    {MsgFileMessage("P1", "", 1, from_client, content) :
        from_client \in {1, 2}, content \in Contents}
    \cup {MsgSet(1, 1, GetSetServicesTag(t)) : t \in TagsSet}

NextSend ==
    \/ handle_connection(ALL_CLIENTS)
    \/ \E k \in Conns : HandlerStart(k)
    \/ \E k \in Conns, msg \in SendFrames : HandlerRecv(k, msg)
    \/ \E k \in Conns : HandlerRecvErr(k)
    \/ \E k \in Conns : HandlerWrite(k)
    \/ RouterEvent

SpecSend == Init /\ [][NextSend]_vars

(***************************************************************************)
(* Properties of the router                                                *)
(***************************************************************************)
\* connection k belongs to a client that registered for files and whose
\* handler still holds the receiving end of its channel
Subscribed(k) ==
    /\ conns[k].st = "running"
    /\ \E id \in DOMAIN clients : clients[id].sender = k /\ clients[id].file_support

\* s is t with frames appended
IsPrefix(s, t) == Len(s) <= Len(t) /\ SubSeq(t, 1, Len(s)) = s

\* C1: a file message of a peer addressed to all clients (to_client =
\* ALL_CLIENTS) is enqueued exactly once on the channel of every client that
\* registered for files, and on no other channel; the frame carries an empty
\* to_peer and the sender, the addressing and the content as received.
C1_BroadcastToSubscribers ==
    [][\A content \in Contents :
         SwarmFileMessage("P1", 1, ALL_CLIENTS, content) =>
           \A k \in Conns :
             outbox'[k] =
               IF Subscribed(k)
               THEN Append(outbox[k],
                           [type |-> "FileMessage", to_peer |-> "",
                            from_peer |-> "P1", to_client |-> ALL_CLIENTS,
                            from_client |-> 1, content |-> content])
               ELSE outbox[k]]_vars

\* C1, its case: the broadcast frame waits in the channel of a client that
\* registered for files and not in the channel of a connected one that did not
C1_Witness ==
    \E j, k \in Conns :
      /\ Subscribed(j)
      /\ \E i \in 1..Len(outbox[j]) :
           outbox[j][i].type = "FileMessage" /\ outbox[j][i].to_client = ALL_CLIENTS
      /\ conns[k].st = "running"
      /\ \E id \in DOMAIN clients : clients[id].sender = k /\ ~clients[id].file_support
      /\ \A i \in 1..Len(outbox[k]) : outbox[k][i].type # "FileMessage"

\* C2: a file message of a peer addressed to one client id enqueues nothing
\* if the id is not in the registry, nothing if that client did not register
\* for files, and otherwise one frame on that client's channel only.
C2_UnicastOnlyToSubscriber ==
    [][\A to_client \in ClientIds \ {ALL_CLIENTS}, content \in Contents :
         SwarmFileMessage("P1", 1, to_client, content) =>
           \A k \in Conns :
             outbox'[k] =
               IF /\ Subscribed(k)
                  /\ to_client \in DOMAIN clients
                  /\ clients[to_client].sender = k
               THEN Append(outbox[k], FileFrame("P1", to_client, 1, content))
               ELSE outbox[k]]_vars

\* C3: no two connection handlers that run at the same time hold the same
\* client id.
C3_LiveIdsDistinct ==
    \A j, k \in Conns :
      (j # k /\ conns[j].st = "running" /\ conns[k].st = "running")
        => conns[j].id # conns[k].id

\* C4: while a handler runs, every step either appends frames to its channel
\* and writes none of them, or writes the oldest frame of the channel to the
\* connection and removes just that frame: frames leave the channel in the
\* order they entered it, none is dropped, duplicated or reordered.
C4_WrittenInEnqueueOrder ==
    [][\A k \in Conns :
         conns[k].st = "running" =>
           \/ conns'[k].st = "closed"
           \/ /\ wire' # <<>>
              /\ wire'[1] = k
              /\ outbox[k] # <<>>
              /\ wire'[2] = outbox[k][1]
              /\ outbox'[k] = SubSeq(outbox[k], 2, Len(outbox[k]))
           \/ /\ (wire' = <<>> \/ wire'[1] # k)
              /\ IsPrefix(outbox[k], outbox'[k])]_vars

\* C4, its case: a frame has been written to a connection while a different,
\* younger frame waits in the same channel
C4_Witness ==
    /\ wire # <<>>
    /\ conns[wire[1]].st = "running"
    /\ outbox[wire[1]] # <<>>
    /\ outbox[wire[1]][1] # wire[2]

(***************************************************************************)
(* Properties of the peer table                                            *)
(***************************************************************************)
\* the frame the router appended to the channel of connection k in this step
Enqueued(k) == outbox'[k][Len(outbox'[k])]

\* C6: a peer entry that is not refreshed is removed by the first run of the
\* reaper at which the clock's seconds exceed its last_update by more than
\* PEER_TTL, so that no entry of the table is ever older than PEER_TTL +
\* REAPER_PERIOD seconds; a run of the reaper removes the entries older than
\* PEER_TTL, and only those; and the answer to a Get{Peers} lists the entries
\* of the table, and so not a removed peer.
C6_ExpiredPeerRemoved ==
    /\ [](\A p \in DOMAIN peers :
            as_secs(now) - peers[p].last_update <= PEER_TTL + REAPER_PERIOD)
    /\ [][timer' # timer =>
            /\ DOMAIN peers' =
                 {p \in DOMAIN peers : as_secs(now) - peers[p].last_update <= PEER_TTL}
            /\ \A p \in DOMAIN peers' : peers'[p] = peers[p]]_vars
    /\ [][\A k \in Conns :
            (/\ Len(outbox'[k]) = Len(outbox[k]) + 1
             /\ Enqueued(k).type = "Get"
             /\ Enqueued(k).content.tag = "Peers")
              => Enqueued(k).content.peers = {peers'[p] : p \in DOMAIN peers'}]_vars

\* C6, its case: a peer announced in the first second has been removed, the
\* other peer is still in the table, and the client has the answer to a
\* Get{Peers} that lists only that other peer
C6_Witness ==
    /\ as_secs(now) > PEER_TTL
    /\ DOMAIN peers = {"P1"}
    /\ \E k \in Conns :
         /\ outbox[k] # <<>>
         /\ outbox[k][1].type = "Get"
         /\ outbox[k][1].content.tag = "Peers"
         /\ {q.peer_id : q \in outbox[k][1].content.peers} = {"P1"}

(***************************************************************************)
(* Properties of the service directory                                     *)
(***************************************************************************)
\* C5: in every state of the directory the local services tag is 0 if and
\* only if the local services map is empty, whatever the random generator
\* returns.
C5_TagZeroIffEmpty ==
    (dir_local.services_tag = 0) <=> (DOMAIN dir_local.services = {})

(***************************************************************************)
(* Properties of the file transfer                                         *)
(***************************************************************************)
\* the transfer id of the client on peer s is a download
IsDownload(s, id) == id \in DOMAIN transfers[s] /\ ~is_upload(transfers[s][id])

\* m is a Chunk for a download of the client on peer s, from that download's
\* peer
ChunkOfDownload(s, m) ==
    /\ m.to_client = FtClientId
    /\ m.service = SERVICE_FILE
    /\ m.content.type = "Chunk"
    /\ IsDownload(s, m.content.id)
    /\ m.from_peer = transfers[s][m.content.id].from

\* the number of messages with the file message fm among those the client
\* on peer s wrote in sent
CountSent(sent, s, fm) ==
    Cardinality({i \in 1..Len(sent) : sent[i].side = s /\ sent[i].msg.content = fm})

\* the client on peer s takes the next message of its daemon: the step of
\* FTReceive, the only one that takes the head off net[s]
Receives(s) == net[s] # <<>> /\ net'[s] = Tail(net[s])

\* C7: when a download reaches Done and no message was lost, the bytes
\* written to the downloader's file are the bytes the uploader read from the
\* offered file, in the same order and of the same number.
C7_DoneDownloadHasBytesRead ==
    \A id \in FTIds :
       (IsDownload("P2", id) /\ is_done(transfers["P2"][id])) =>
          LET t == transfers["P2"][id]
              u == transfers[t.from][id]
          IN /\ id \in DOMAIN transfers[t.from]
             /\ is_upload(u) /\ u.to = "P2" /\ u.file = t.file
             /\ t.num_bytes = u.num_bytes
             /\ disk["P2"][file_name(t.file)] =
                  SubSeq(disk[t.from][u.file], 1, u.num_bytes)

\* C7, its case: a download of more than one chunk is Done
C7_Witness ==
    \E id \in FTIds :
       /\ IsDownload("P2", id)
       /\ is_done(transfers["P2"][id])
       /\ transfers["P2"][id].num_bytes > CHUNK_SIZE

\* C8 as the specification states it: the receiver sends exactly one
\* ChunkAck for each Chunk of the transfer it receives.
C8_EveryChunkAcked ==
    [][\A s \in FTSides :
         (Receives(s) /\ ChunkOfDownload(s, Head(net[s])))
           => CountSent(ft_sent', s, FmChunkAck(Head(net[s]).content.id)) = 1]_vars

\* C8: the receiver sends exactly one ChunkAck for each Chunk that arrives
\* from the download's peer while the download waits for a chunk and that it
\* writes to the file, and none for a Chunk that arrives in another state or
\* whose write fails; it sends no ChunkAck in a step in which it took no such
\* Chunk; and the step in which a download becomes Done is the one that
\* writes a Chunk shorter than CHUNK_SIZE and sends the ChunkAck for it, after
\* which the download stays Done and sends none.
C8_AckForWrittenChunk ==
    /\ [][\A s \in FTSides : Receives(s) =>
            LET m == Head(net[s])
                id == m.content.id
                taken == /\ ChunkOfDownload(s, m)
                         /\ transfers[s][id].state.tag = "WaitChunk"
                name == file_name(transfers[s][id].file)
            IN IF taken /\ ~is_error(transfers'[s][id])
               THEN /\ disk'[s][name] = disk[s][name] \o m.content.data
                    /\ ft_sent' = Sent(s, FileReply(m.from_peer, m.from_client,
                                                    Some(FmChunkAck(id))))
                    /\ transfers'[s][id].state =
                         IF Len(m.content.data) < CHUNK_SIZE
                         THEN St("Done") ELSE St("WaitChunk")
               ELSE /\ \A i \in FTIds : CountSent(ft_sent', s, FmChunkAck(i)) = 0
                    /\ taken => transfers'[s][id].state = StError("Error writing file")
                    /\ disk'[s] = disk[s]]_vars
    /\ [][\A s \in FTSides : ~Receives(s) =>
            \A i \in FTIds : CountSent(ft_sent', s, FmChunkAck(i)) = 0]_vars
    /\ [][\A s \in FTSides, id \in FTIds :
            (IsDownload(s, id) /\ is_done(transfers'[s][id])) =>
               IF is_done(transfers[s][id])
               THEN CountSent(ft_sent', s, FmChunkAck(id)) = 0
               ELSE /\ Receives(s)
                    /\ Head(net[s]).content = FmChunk(id, Head(net[s]).content.data)
                    /\ Len(Head(net[s]).content.data) < CHUNK_SIZE
                    /\ CountSent(ft_sent', s, FmChunkAck(id)) = 1]_vars

\* C8, its case: the downloader has just sent the ChunkAck for the last of
\* two chunks, a full one and an empty one, and its download is Done
C8_Witness ==
    \E id \in FTIds :
       /\ IsDownload("P2", id)
       /\ is_done(transfers["P2"][id])
       /\ Len(disk["P2"][file_name(transfers["P2"][id].file)]) = CHUNK_SIZE
       /\ CountSent(ft_sent, "P2", FmChunkAck(id)) = 1

\* C9: a timer check moves exactly the transfers that are neither Done nor
\* Error and have been idle for more than IDLE_TIMEOUT seconds to
\* Error("Timeout"); every other transfer keeps its state, and no transfer
\* appears or disappears.
C9_TimerMovesIdleToTimeout ==
    [][\A s \in FTSides : FTTimer(s) =>
         /\ DOMAIN transfers'[s] = DOMAIN transfers[s]
         /\ \A id \in DOMAIN transfers[s] :
              LET t == transfers[s][id]
              IN IF /\ t.state.tag \notin {"Done", "Error"}
                    /\ as_secs(now) - t.last_active > IDLE_TIMEOUT
                 THEN transfers'[s][id].state = StError("Timeout")
                 ELSE transfers'[s][id] = t]_vars

\* C9, its case: of two downloads of one client the timer check has moved
\* the one idle for 31 seconds to Error("Timeout") and left the one idle for
\* a second as it was
C9_Witness ==
    \E id, other \in FTIds :
       /\ IsDownload("P2", id) /\ IsDownload("P2", other)
       /\ transfers["P2"][id].state = StError("Timeout")
       /\ as_secs(now) - transfers["P2"][id].last_active = IDLE_TIMEOUT + 1
       /\ ~is_error(transfers["P2"][other])
       /\ as_secs(now) - transfers["P2"][other].last_active = 1

\* C10: cancelling a transfer that is neither Done nor Error moves it to
\* Error("Canceled by user") in the same step, and cancelling a Done or Error
\* transfer changes nothing; a cancelled transfer stays cancelled, and the
\* client that holds it sends no Chunk and no ChunkAck of it any more,
\* whatever messages arrive.
C10_CancelStopsTransfer ==
    /\ [][\A s \in FTSides, id \in FTIds :
            (FTUserCancel(s, id) /\ id \in DOMAIN transfers[s]) =>
               IF is_done(transfers[s][id]) \/ is_error(transfers[s][id])
               THEN transfers'[s][id] = transfers[s][id]
               ELSE transfers'[s][id].state = StError("Canceled by user")]_vars
    /\ [][\A s \in FTSides, id \in FTIds :
            (/\ id \in DOMAIN transfers[s]
             /\ transfers[s][id].state = StError("Canceled by user")) =>
               /\ transfers'[s][id] = transfers[s][id]
               /\ \A i \in 1..Len(ft_sent') :
                    (/\ ft_sent'[i].side = s
                     /\ ft_sent'[i].msg.content.id = id)
                      => ft_sent'[i].msg.content.type \notin {"Chunk", "ChunkAck"}]_vars

\* C10, its case: the user of P2 cancelled a download before the uploader's
\* first chunk arrived; the chunk has arrived since, nothing of it was
\* written or acknowledged, and the uploader still waits for the ChunkAck
C10_Witness ==
    /\ IsDownload("P2", 1)
    /\ transfers["P2"][1].state = StError("Canceled by user")
    /\ transfers["P2"][1].num_bytes = 0
    /\ net["P2"] = <<>>
    /\ ft_sent = <<>>
    /\ 1 \in DOMAIN transfers["P1"]
    /\ transfers["P1"][1].to = "P2"
    /\ transfers["P1"][1].state.tag = "WaitAck"
    /\ transfers["P1"][1].num_bytes = CHUNK_SIZE

\* the user of peer s has cancelled the transfer id while it was in progress
Cancelled(s, id) ==
    id \in DOMAIN transfers[s] /\ transfers[s][id].state = StError("Canceled by user")

\* the transfer id of the client on peer c is the other end of the transfer
\* id of the client on peer s
Counterparty(c, s, id) ==
    /\ c # s
    /\ id \in DOMAIN transfers[c]
    /\ id \in DOMAIN transfers[s]
    /\ IF is_upload(transfers[s][id])
       THEN transfers[s][id].to = c /\ transfers[c][id].from = s
       ELSE transfers[s][id].from = c /\ transfers[c][id].to = s

EndsOtherwise ==
    {St("Done"), StError("Canceled by user"), StError("Error opening file"),
     StError("Error reading file"), StError("Error writing file")}

IsUpload(s, id) == id \in DOMAIN transfers[s] /\ is_upload(transfers[s][id])

\* the lengths of the chunks of a file of n bytes
ChunkLengths(n) ==
    [k \in 1..(n \div CHUNK_SIZE + 1) |->
       IF k <= n \div CHUNK_SIZE THEN CHUNK_SIZE ELSE n % CHUNK_SIZE]

\* C12: an upload of a file of n bytes that has sent its last chunk has sent
\* exactly floor(n/512)+1 Chunk messages, the first floor(n/512) of 512
\* bytes and the last of n mod 512 bytes; at any time the chunks sent are
\* the first ones of these; and every chunk after the first is sent in the
\* step that takes the peer's ChunkAck for the chunk before it.
C12_ChunksOfUpload ==
    /\ [](\A s \in FTSides, id \in FTIds : IsUpload(s, id) =>
            LET u == transfers[s][id]
                all == ChunkLengths(Len(disk[s][u.file]))
            IN /\ IsPrefix(ft_chunks[s][id], all)
               /\ u.state.tag \in {"WaitLastAck", "Done"} => ft_chunks[s][id] = all)
    /\ [][\A s \in FTSides, id \in FTIds :
            (ft_chunks'[s][id] # ft_chunks[s][id] /\ ft_chunks[s][id] # <<>>) =>
               /\ Len(ft_chunks'[s][id]) = Len(ft_chunks[s][id]) + 1
               /\ Receives(s)
               /\ Head(net[s]).content = FmChunkAck(id)
               /\ IsUpload(s, id)
               /\ Head(net[s]).from_peer = transfers[s][id].to
               /\ transfers[s][id].state.tag = "WaitAck"]_vars

\* C12, its case: the upload of a file of 1024 bytes is Done after chunks of
\* 512, 512 and 0 bytes
C12_Witness ==
    \E id \in FTIds :
       /\ IsUpload("P1", id)
       /\ is_done(transfers["P1"][id])
       /\ ft_chunks["P1"][id] = <<CHUNK_SIZE, CHUNK_SIZE, 0>>

\* the counterparty of a transfer: the `to` peer of an upload, the `from`
\* peer of a download
PeerOf(t) == IF t.from = "" THEN t.to ELSE t.from

\* C13: when a client takes a Chunk or a ChunkAck that carries the id of one
\* of its transfers but comes from a peer other than the transfer's
\* counterparty, its transfers (state, byte count, idle timer) and its files
\* stay as they are and it writes no message.
C13_WrongSenderIgnored ==
    [][\A s \in FTSides :
         (/\ Receives(s)
          /\ Head(net[s]).to_client = FtClientId
          /\ Head(net[s]).service = SERVICE_FILE
          /\ Head(net[s]).content.type \in {"Chunk", "ChunkAck"}
          /\ Head(net[s]).content.id \in DOMAIN transfers[s]
          /\ Head(net[s]).from_peer # PeerOf(transfers[s][Head(net[s]).content.id]))
           => /\ transfers' = transfers
              /\ disk' = disk
              /\ ft_sent' = <<>>
              /\ \A c \in FTSides \ {s} : net'[c] = net[c]]_vars

\* C13, its case: a second after its start a download still waits for its
\* first chunk, with its idle timer at the second it started; the uploader
\* has not taken the Get yet, and the client has taken the message of the
\* third peer
C13_Witness ==
    /\ IsDownload("P2", 1)
    /\ transfers["P2"][1].state = St("WaitChunk")
    /\ transfers["P2"][1].num_bytes = 0
    /\ transfers["P2"][1].last_active = 0
    /\ as_secs(now) = 1
    /\ env_steps = 2
    /\ DOMAIN transfers["P1"] = {}
    /\ net["P2"] = <<>>

\* the ServiceRequest frames for peer p among the frames in sent
RequestsTo(sent, p) ==
    {i \in 1..Len(sent) :
       /\ sent[i].type = "Message"
       /\ sent[i].to_peer = p
       /\ sent[i].service = SERVICE_SERVICE
       /\ sent[i].content = ServiceRequest}

\* C14: on a PeerUpdate for peer p the directory writes exactly one frame, a
\* ServiceRequest to p addressed to all clients, if p is not known yet or
\* the announced tag differs from the tag stored for p, and writes nothing
\* if the announced tag equals the stored tag.
C14_RequestOnNewTag ==
    [][\A p \in PeerIds, tag \in Tags : handle_event_peer_update(p, tag) =>
         IF p \notin DOMAIN dir_peers \/ dir_peers[p].services_tag # tag
         THEN /\ Len(dir_sent') = 1
              /\ RequestsTo(dir_sent', p) = {1}
              /\ dir_sent'[1].to_client = ALL_CLIENTS
              /\ dir_sent'[1].from_client = DirClientId
         ELSE dir_sent' = <<>>]_vars

\* C14, its case: the directory has asked a peer it knew for its services
\* because the announced tag, which it has stored, was a new one
C14_Witness ==
    /\ "P1" \in DOMAIN dir_peers
    /\ dir_peers["P1"].services_tag # 0
    /\ Cardinality(RequestsTo(dir_sent, "P1")) = 1

\* the ServiceUpdate events among the frames in sent
UpdatesIn(sent) ==
    {i \in 1..Len(sent) : sent[i].type = "Event" /\ sent[i].event.type = "ServiceUpdate"}

\* the clients of peer p that offer service s according to the stored maps ps
Offering(ps, p, s) == {c \in DOMAIN ps[p].services : s \in ps[p].services[c]}

\* C15: every ServiceUpdate(s, map) the directory writes goes to a local
\* client whose services in the local map contain s, and map lists exactly
\* the peers with a client offering s in the remote maps stored at that
\* moment, each with exactly its clients offering s; and after a
\* ServiceReply the directory writes one such event for every service s and
\* local client offering s, and nothing else.
C15_FanOut ==
    /\ [][\A i \in UpdatesIn(dir_sent') :
            LET c == dir_sent'[i].to_client
                sv == dir_sent'[i].event.service
                map == dir_sent'[i].event.peers
            IN /\ c \in DOMAIN dir_local'.services
               /\ sv \in dir_local'.services[c]
               /\ dir_sent'[i].from_client = DirClientId
               /\ DOMAIN map = {p \in DOMAIN dir_peers' : Offering(dir_peers', p, sv) # {}}
               /\ \A p \in DOMAIN map : map[p] = Offering(dir_peers', p, sv)]_vars
    /\ [][(\E from_peer \in PeerIds, tag \in FewTags, services \in PeerServiceMaps :
             handle_message_service_reply(from_peer, tag, services)) =>
            /\ UpdatesIn(dir_sent') = 1..Len(dir_sent')
            /\ \A c \in DOMAIN dir_local.services : \A sv \in dir_local.services[c] :
                 Cardinality({i \in UpdatesIn(dir_sent') :
                                /\ dir_sent'[i].to_client = c
                                /\ dir_sent'[i].event.service = sv}) = 1
            /\ Len(dir_sent') =
                 Cardinality({x \in (DOMAIN dir_local.services) \X ServiceIds :
                                x[2] \in dir_local.services[x[1]]})]_vars

\* C15, its case: two local clients offer the file service, and each has
\* been sent the map with the client of peer P1 that offers it
C15_Witness ==
    /\ Cardinality(UpdatesIn(dir_sent)) = 2
    /\ \A i \in UpdatesIn(dir_sent) :
         /\ dir_sent[i].event.service = SERVICE_FILE
         /\ DOMAIN dir_sent[i].event.peers = {"P1"}
         /\ dir_sent[i].event.peers["P1"] = {1}
    /\ dir_sent[1].to_client # dir_sent[2].to_client

\* the services the directory has stored for peer p in the maps ps
StoredServices(ps, p) == IF p \in DOMAIN ps THEN ps[p].services ELSE EmptyMap

\* C16: after every step that changes the local services map or the stored
\* services of a peer the directory has written a ServiceUpdate(s, ...) to
\* every local client for every service s it offers; so a local client that
\* registers s while providers of s are known is sent the ServiceUpdate for
\* s in the step of its ClientUpdate.
C16_UpdateAfterEveryChange ==
    [][(\/ dir_local'.services # dir_local.services
        \/ \E p \in PeerIds : StoredServices(dir_peers', p) # StoredServices(dir_peers, p))
         => \A c \in DOMAIN dir_local'.services : \A sv \in dir_local'.services[c] :
              \E i \in UpdatesIn(dir_sent') :
                 /\ dir_sent'[i].to_client = c
                 /\ dir_sent'[i].event.service = sv]_vars

\* C17: after a ClientUpdate(add, id, S) the local services map maps id to S
\* if add is true and S is not empty, and has no entry for id otherwise; the
\* entries of all other clients are as before; and when the map is empty
\* afterwards the tag is 0.
C17_ClientUpdateEffect ==
    [][dir_request_id' # dir_request_id =>
         \A add \in BOOLEAN, id \in DirClients, S \in SUBSET ServiceIds, r \in FewTags :
            handle_event_client_update(add, id, S, r) =>
               /\ DOMAIN dir_local'.services =
                    IF add /\ S # {}
                    THEN DOMAIN dir_local.services \cup {id}
                    ELSE DOMAIN dir_local.services \ {id}
               /\ (add /\ S # {}) => dir_local'.services[id] = S
               /\ \A c \in DOMAIN dir_local.services \ {id} :
                    dir_local'.services[c] = dir_local.services[c]
               /\ DOMAIN dir_local'.services = {} => dir_local'.services_tag = 0]_vars

\* C17, its case: after an even number of ClientUpdates, the last of which
\* removed the last entry, the map is empty and the tag 0 has been sent to
\* the daemon
C17_Witness ==
    /\ DOMAIN dir_local.services = {}
    /\ dir_local.services_tag = 0
    /\ dir_request_id = 0
    /\ dir_sent = <<MsgSet(DirClientId, 0, GetSetServicesTag(0))>>

\* the services the clients of the map m offer
Offered(m) == UNION {m[c] : c \in DOMAIN m}

\* C18: whenever a ClientUpdate changes the set of locally offered services,
\* the services tag after the update differs from the tag before it.
C18_TagChangesWithServices ==
    [][(/\ dir_request_id' # dir_request_id
        /\ Offered(dir_local'.services) # Offered(dir_local.services))
         => dir_local'.services_tag # dir_local.services_tag]_vars


\* the router takes the message msg of a client off its event channel
RouterTakes(msg) ==
    /\ running
    /\ from_client_rx # <<>>
    /\ Head(from_client_rx).type = "ClientMessage"
    /\ Head(from_client_rx).msg = msg
    /\ from_client_rx' = Tail(from_client_rx)

\* C19: when the router handles Set{ServicesTag(t)} of a registered client,
\* it sends SetServicesTag(t) to the overlay (whose heartbeat then announces
\* t), for t = 0 as for any other tag
C19_TagPassedToOverlay ==
    [][\A t \in TagsSet :
          (/\ RouterTakes(MsgSet(1, 1, GetSetServicesTag(t)))
           /\ Head(from_client_rx).id \in DOMAIN clients)
            => SwSetServicesTag(t) \in SeqToSet(to_swarm')]_vars

\* C20: for each file message a client sends for a peer, the router sends
\* the overlay exactly one SendFileMessage with the same peer, clients and
\* content
C20_OneSendPerMessage ==
    [][\A msg \in SendFrames :
          (msg.type = "FileMessage" /\ RouterTakes(msg))
            => to_swarm' = <<SwSendFileMessage(msg.to_peer, msg.to_client,
                                               msg.from_client, msg.content)>>]_vars

\* C21: when the router handles the Register of a client, one RegisterOk with
\* the id of the client's connection is appended to the channel of that
\* connection and to no other channel, and the registry entry of that
\* connection takes the services of the request while every other entry stays
\* as it is
C21_RegisterOkToOwnOutbox ==
    [][\A msg \in ClientFrames :
          RouterTakes(msg) =>
            LET id == Head(from_client_rx).id
                k0 == Head(from_client_rx).conn
            IN /\ \A k \in Conns :
                    outbox'[k] = IF k = k0 /\ ReceiverOpen(k)
                                 THEN Append(outbox[k], MsgRegisterOk(conns[k0].id))
                                 ELSE outbox[k]
               /\ id \in DOMAIN clients
               /\ clients[id].sender = k0
               /\ clients' = [clients EXCEPT ![id].chat_support = msg.chat,
                                             ![id].file_support = msg.files]]_vars

\* the services a Register of daemon.rs names
ServicesOf(msg) ==
    (IF msg.chat THEN {SERVICE_CHAT} ELSE {}) \cup (IF msg.files THEN {SERVICE_FILE} ELSE {})

\* the client of connection d has registered: its RegisterOk is in its
\* channel, and its handler runs
HasRegistered(d) ==
    /\ ReceiverOpen(d)
    /\ \E i \in 1..Len(outbox[d]) : outbox[d][i] = MsgRegisterOk(conns[d].id)

\* the router has put a frame with the event ev last into the channel of d
EventSent(d, ev) ==
    /\ Len(outbox'[d]) = Len(outbox[d]) + 1
    /\ outbox'[d][Len(outbox'[d])].type = "Event"
    /\ outbox'[d][Len(outbox'[d])].event = ev

\* the router takes the RemoveClient of id off its event channel
RouterRemoves(id) ==
    /\ running
    /\ from_client_rx # <<>>
    /\ Head(from_client_rx) = EvRemoveClient(id)
    /\ from_client_rx' = Tail(from_client_rx)

\* C22: when the router handles the Register of a client, every other client
\* that has registered (for the directory service) is sent
\* ClientUpdate(true, id, services), and when it removes a client of the
\* registry that had registered (for files) every such client is sent
\* ClientUpdate(false, id, {})
C22_ClientUpdateOnRegistryChange ==
    [][\A d \in Conns :
          HasRegistered(d) =>
            /\ \A msg \in ClientFrames :
                  (RouterTakes(msg) /\ Head(from_client_rx).conn # d)
                    => EventSent(d, EventClientUpdate(TRUE, Head(from_client_rx).id,
                                                      ServicesOf(msg)))
            /\ \A id \in DOMAIN clients :
                  (RouterRemoves(id) /\ clients[id].file_support /\ conns[d].id # id)
                    => EventSent(d, EventClientUpdate(FALSE, id, {}))]_vars

\* the events in the frames that a step appends to the channel of d
NewEvents(d) ==
    {outbox'[d][i].event : i \in {j \in (Len(outbox[d]) + 1)..Len(outbox'[d]) :
                                     outbox'[d][j].type = "Event"}}

\* C23: whenever an announcement or a run of the reaper changes the set of
\* known peers, every client that has registered (for the directory service)
\* is sent a PeerUpdate for each peer that joined or left the set
C23_PeerUpdateOnPeerSetChange ==
    [][\A d \in Conns :
          HasRegistered(d) =>
            \A p \in PeerIds :
               ((p \in DOMAIN peers) # (p \in DOMAIN peers'))
                 => \E ev \in NewEvents(d) :
                       ev.type = "PeerUpdate" /\ ev.peer_info.peer_id = p]_vars

\* C24: a message other than Register of a connection that has not registered
\* (no client of SpecSend ever sends Register) is dropped: the router puts no
\* reply into a channel, sends nothing to the overlay and leaves its client
\* and peer tables as they are
C24_DroppedBeforeRegister ==
    [][\A msg \in SendFrames :
          (/\ RouterTakes(msg)
           /\ Head(from_client_rx).id \in DOMAIN clients
           /\ clients[Head(from_client_rx).id].sender = Head(from_client_rx).conn)
            => /\ outbox' = outbox
               /\ to_swarm' = <<>>
               /\ clients' = clients
               /\ peers' = peers]_vars

\* C25: every client id given to a connection lies in 1..ALL_CLIENTS - 1
\* (1..=0xFFFE): the first connection gets 1, every later one the id of the
\* connection before it plus one, or 1 again after ALL_CLIENTS - 1, and the
\* counter itself never holds 0 or ALL_CLIENTS
C25_IdsInRange ==
    /\ client_id \in 1..(ALL_CLIENTS - 1)
    /\ \A k \in Conns :
         /\ conns[k].id \in 1..(ALL_CLIENTS - 1)
         /\ conns[k].id = IF k = 1 THEN 1
                          ELSE IF conns[k - 1].id = ALL_CLIENTS - 1 THEN 1
                          ELSE conns[k - 1].id + 1

\* C25, its case: the counter has wrapped: a connection got ALL_CLIENTS - 1
\* and the one after it got 1
C25_Witness ==
    \E k \in Conns :
      k > 1 /\ conns[k - 1].id = ALL_CLIENTS - 1 /\ conns[k].id = 1 /\ client_id = 2


(***************************************************************************)
(* The encoding of messages (Message::to_bytes and Message::from_bytes,    *)
(* src/daemon_message.rs, the Message src/unix_socket.rs imports).  The    *)
(* derived encoding is CBOR: an enum value is the array [index, fields],   *)
(* the fields an array in the order of their #[n(..)] indexes.  A String   *)
(* is its sequence of UTF-8 bytes, a text of the encoding.                 *)
(***************************************************************************)
\* the head of a data item: major type and argument in the shortest form
cbor_head(major, n) ==
    IF n < 24 THEN <<major * 32 + n>>
    ELSE IF n < 256 THEN <<major * 32 + 24, n>>
    ELSE IF n < 65536 THEN <<major * 32 + 25, n \div 256, n % 256>>
    ELSE <<major * 32 + 26, (n \div 16777216) % 256, (n \div 65536) % 256,
           (n \div 256) % 256, n % 256>>

encode_uint(n) == cbor_head(0, n)

encode_bool(b) == IF b THEN <<245>> ELSE <<244>>

encode_str(s) == cbor_head(3, Len(s)) \o s

\* a Vec<u8> without #[cbor(with = "minicbor::bytes")] is an array of numbers
RECURSIVE encode_items(_)
encode_items(v) ==
    IF v = <<>> THEN <<>> ELSE encode_uint(Head(v)) \o encode_items(Tail(v))

encode_vec(v) == cbor_head(4, Len(v)) \o encode_items(v)

\* the variant with index idx and the encoded fields fs
encode_variant(idx, n, fs) == cbor_head(4, 2) \o encode_uint(idx) \o cbor_head(4, n) \o fs

\* Message::to_bytes for the variants Ok, Error, FileMessage, Register and
\* RegisterOk; encoding into a Vec does not fail
to_bytes(m) ==
    CASE m.type = "Ok" -> encode_variant(0, 0, <<>>)
      [] m.type = "Error" -> encode_variant(1, 1, encode_str(m.message))
      [] m.type = "FileMessage" ->
           encode_variant(5, 5, encode_str(m.to_peer) \o encode_str(m.from_peer)
                                \o encode_uint(m.to_client) \o encode_uint(m.from_client)
                                \o encode_vec(m.content))
      [] m.type = "Register" ->
           encode_variant(6, 2, encode_bool(m.chat) \o encode_bool(m.files))
      [] m.type = "RegisterOk" -> encode_variant(7, 1, encode_uint(m.client_id))

\* the result of decoding one item: failed, or a value and the bytes after it
Failed == [ok |-> FALSE]

Decoded(v, rest) == [ok |-> TRUE, val |-> v, rest |-> rest]

Drop(b, n) == SubSeq(b, n + 1, Len(b))

\* the argument of a head of the given major type; the model has no
\* arguments of 2^31 and more, which no length and no field here reaches
decode_head(major, b) ==
    IF b = <<>> \/ b[1] \div 32 # major THEN Failed
    ELSE LET a == b[1] % 32
         IN IF a < 24 THEN Decoded(a, Drop(b, 1))
            ELSE IF a = 24 /\ Len(b) >= 2 THEN Decoded(b[2], Drop(b, 2))
            ELSE IF a = 25 /\ Len(b) >= 3 THEN Decoded(b[2] * 256 + b[3], Drop(b, 3))
            ELSE IF a = 26 /\ Len(b) >= 5 /\ b[2] < 128
                 THEN Decoded(b[2] * 16777216 + b[3] * 65536 + b[4] * 256 + b[5], Drop(b, 5))
            ELSE Failed

\* an unsigned number that fits the field's type
decode_uint(max, b) ==
    LET h == decode_head(0, b)
    IN IF h.ok /\ h.val <= max THEN h ELSE Failed

decode_bool(b) ==
    IF b # <<>> /\ b[1] \in {244, 245} THEN Decoded(b[1] = 245, Drop(b, 1)) ELSE Failed

\* a text: its bytes have to be UTF-8, which bytes below 128 are
decode_str(b) ==
    LET h == decode_head(3, b)
    IN IF h.ok /\ Len(h.rest) >= h.val
          /\ \A i \in 1..h.val : h.rest[i] < 128
       THEN Decoded(SubSeq(h.rest, 1, h.val), Drop(h.rest, h.val))
       ELSE Failed

RECURSIVE decode_items(_, _)
decode_items(n, b) ==
    IF n = 0 THEN Decoded(<<>>, b)
    ELSE LET x == decode_uint(255, b)
         IN IF ~x.ok THEN Failed
            ELSE LET r == decode_items(n - 1, x.rest)
                 IN IF r.ok THEN Decoded(<<x.val>> \o r.val, r.rest) ELSE Failed

decode_vec(b) ==
    LET h == decode_head(4, b)
    IN IF h.ok THEN decode_items(h.val, h.rest) ELSE Failed

\* the fields of the variant with index idx, of which the array holds n
decode_fields(idx, n, b) ==
    CASE idx = 0 -> Decoded([type |-> "Ok"], b)
      [] idx = 1 /\ n >= 1 ->
           LET s == decode_str(b)
           IN IF s.ok THEN Decoded([type |-> "Error", message |-> s.val], s.rest) ELSE Failed
      [] idx = 5 /\ n >= 5 ->
           LET tp == decode_str(b)
               fp == IF tp.ok THEN decode_str(tp.rest) ELSE Failed
               tc == IF fp.ok THEN decode_uint(65535, fp.rest) ELSE Failed
               fc == IF tc.ok THEN decode_uint(65535, tc.rest) ELSE Failed
               co == IF fc.ok THEN decode_vec(fc.rest) ELSE Failed
           IN IF co.ok
              THEN Decoded([type |-> "FileMessage", to_peer |-> tp.val,
                            from_peer |-> fp.val, to_client |-> tc.val,
                            from_client |-> fc.val, content |-> co.val], co.rest)
              ELSE Failed
      [] idx = 6 /\ n >= 2 ->
           LET c == decode_bool(b)
               f == IF c.ok THEN decode_bool(c.rest) ELSE Failed
           IN IF f.ok
              THEN Decoded([type |-> "Register", chat |-> c.val, files |-> f.val], f.rest)
              ELSE Failed
      [] idx = 7 /\ n >= 1 ->
           LET c == decode_uint(65535, b)
           IN IF c.ok THEN Decoded([type |-> "RegisterOk", client_id |-> c.val], c.rest)
              ELSE Failed
      [] OTHER -> Failed

\* Message::from_bytes: the message the first item of the bytes encodes, None
\* when it is not a message; a missing field and an unknown index are errors
from_bytes(b) ==
    LET a == decode_head(4, b)
        i == IF a.ok /\ a.val = 2 THEN decode_head(0, a.rest) ELSE Failed
        n == IF i.ok THEN decode_head(4, i.rest) ELSE Failed
        m == IF n.ok THEN decode_fields(i.val, n.val, n.rest) ELSE Failed
    IN IF m.ok THEN Some(m.val) ELSE None


(***************************************************************************)
(* One connection of the daemon's socket: UnixClient::send_message on one  *)
(* end, UnixClient::receive_message on the other (src/unix_socket.rs)      *)
(***************************************************************************)
\* the largest number of bytes whose length send can write: u16::MAX
MAX_FRAME == 65535

\* u16::to_be_bytes
to_le_bytes(n) == <<n % 256, n \div 256>>

to_be_bytes(n) == <<n \div 256, n % 256>>

\* u16::from_be_bytes
from_be_bytes(b) == b[1] * 256 + b[2]

\* the bytes send writes for a message: its length, then its encoding
Frame(m) == to_be_bytes(Len(to_bytes(m))) \o to_bytes(m)

\* a text of n letters
Text(n) == SubSeq([i \in 1..n |-> 97], 1, n)

\* an Error whose encoding has n bytes: 3 bytes of the variant, 3 of the
\* text's head and the text
ErrorOfSize(n) == MsgError(Text(n - 6))

\* the messages the sending end is given: one of each variant with every kind
\* of field, the longest message send accepts and the shortest it refuses
SocketMessages ==
    {MsgOk, MsgError(<<104, 105>>), MsgRegister(FALSE, TRUE),
     MsgRegisterOk(ALL_CLIENTS - 1), MsgRegisterOk(65534),
     MsgFileMessage(<<80, 49>>, <<>>, 1, 300, <<1, 200>>),
     ErrorOfSize(MAX_FRAME), ErrorOfSize(MAX_FRAME + 1)}

\* send_message (lines 96-101) up to the first write_all of send (line 80):
\* a length that is no u16 is an error, returned before anything is written
send_message(m) ==
    /\ socket.body = None
    /\ Len(socket.sent) + Len(socket.refused) < MaxSends
    /\ LET bytes == to_bytes(m)
       IN socket' =
            IF Len(bytes) > MAX_FRAME
            THEN [socket EXCEPT !.refused = Append(@, Len(bytes))]
            ELSE [socket EXCEPT !.stream = @ \o to_be_bytes(Len(bytes)),
                                !.body = Some(bytes),
                                !.sent = Append(@, m)]
    /\ UNCHANGED <<routerVars, dirVars, ftVars, swarm>>

\* send, line 81: the second write_all
send_body ==
    /\ socket.body # None
    /\ socket' = [socket EXCEPT !.stream = @ \o socket.body[1], !.body = None]
    /\ UNCHANGED <<routerVars, dirVars, ftVars, swarm>>

\* receive, lines 87-89: read_exact of the two bytes of the length
receive_len ==
    /\ socket.need = -1
    /\ ~socket.failed
    /\ Len(socket.stream) >= 2
    /\ socket' = [socket EXCEPT !.need = from_be_bytes(socket.stream),
                                !.stream = Drop(@, 2)]
    /\ UNCHANGED <<routerVars, dirVars, ftVars, swarm>>

\* receive, lines 90-92, and receive_message, lines 105-112: read_exact of
\* the body, which is decoded; bytes that are no message are an error
receive_message ==
    /\ socket.need >= 0
    /\ Len(socket.stream) >= socket.need
    /\ LET msg == from_bytes(SubSeq(socket.stream, 1, socket.need))
       IN socket' = [socket EXCEPT !.stream = Drop(@, socket.need),
                                   !.need = -1,
                                   !.got = IF msg = None THEN @ ELSE Append(@, msg[1]),
                                   !.failed = (msg = None)]
    /\ UNCHANGED <<routerVars, dirVars, ftVars, swarm>>

SocketNext ==
    \/ \E m \in SocketMessages : send_message(m)
    \/ send_body
    \/ receive_len
    \/ receive_message

SpecSocket == Init /\ [][SocketNext]_vars


\* the bytes a sequence of messages makes on the stream
RECURSIVE Frames(_)
Frames(ms) == IF ms = <<>> THEN <<>> ELSE Frame(Head(ms)) \o Frames(Tail(ms))

\* the messages sent that receive_message has not returned yet
Unreceived == SubSeq(socket.sent, Len(socket.got) + 1, Len(socket.sent))

\* the bytes of the frames under way: the length receive holds, the stream,
\* and the body send has not written yet
UnderWay ==
    (IF socket.need = -1 THEN <<>> ELSE to_be_bytes(socket.need))
    \o socket.stream
    \o (IF socket.body = None THEN <<>> ELSE socket.body[1])

\* C28: the messages receive_message returns are the messages given to
\* send_message, equal and in the same order, and no receive fails; what is
\* under way is the frames (length, then encoding) of exactly the messages
\* not yet returned, so that a message of more than 65535 bytes, which send
\* refuses, has written nothing; send refuses those messages and no other
C28_RoundTrip ==
    /\ IsPrefix(socket.got, socket.sent)
    /\ ~socket.failed
    /\ UnderWay = Frames(Unreceived)
    /\ \A i \in 1..Len(socket.sent) : Len(to_bytes(socket.sent[i])) <= MAX_FRAME
    /\ \A i \in 1..Len(socket.refused) : socket.refused[i] > MAX_FRAME

\* a message with fields of every kind has been returned as it was sent, and
\* a message of 65536 bytes has been refused
C28_Witness ==
    /\ socket.got = <<MsgFileMessage(<<80, 49>>, <<>>, 1, 300, <<1, 200>>)>>
    /\ socket.sent = socket.got
    /\ socket.refused = <<MAX_FRAME + 1>>
    /\ socket.stream = <<>>


(***************************************************************************)
(* Frames of a client that are no message                                  *)
(***************************************************************************)
\* the bodies of complete frames a client sends: a Register, a byte that
\* starts no message, a variant index Message does not have, and a Register
\* that lacks a field
ClientBytes ==
    {to_bytes(MsgRegister(FALSE, TRUE)), <<255>>, encode_variant(10, 0, <<>>),
     encode_variant(6, 1, encode_bool(TRUE))}

\* handle_client, lines 98-113, with receive_message (src/unix_socket.rs,
\* lines 104-113): the body of a complete frame is decoded; a message is
\* forwarded to the router, bytes that are no message are the Err of
\* receive_message, which leaves the loop
HandlerRecvFrame(k, bytes) ==
    IF from_bytes(bytes) = None
    THEN HandlerRecvErr(k)
    ELSE HandlerRecv(k, from_bytes(bytes)[1])

NextDecode ==
    \/ handle_connection(MaxConns)
    \/ \E k \in Conns : HandlerStart(k)
    \/ \E k \in Conns, bytes \in ClientBytes : HandlerRecvFrame(k, bytes)
    \/ \E k \in Conns : HandlerWrite(k)
    \/ RouterEvent

SpecDecode == Init /\ [][NextDecode]_vars

\* C26: when a handler receives a complete frame whose body is no message,
\* only the frame is dropped: the handler's connection stays open and nothing
\* is sent to the router, so that the client stays registered
C26_DecodeErrorDropsFrame ==
    [][\A k \in Conns, bytes \in ClientBytes :
          (from_bytes(bytes) = None /\ HandlerRecvFrame(k, bytes))
          => /\ conns'[k].st = "running"
             /\ from_client_rx' = from_client_rx
             /\ clients' = clients]_vars


\* C27: EOF or an error on the socket of one connection ends that connection
\* only: its handler stops and sends RemoveClient for its id, no other handler
\* and no channel of another handler changes; and when the router handles
\* that RemoveClient, every client whose connection is still open stays in
\* the registry as it was
C27_OnlyThatConnectionEnds ==
    [][/\ \A k \in Conns :
             HandlerRecvErr(k)
             => /\ conns'[k].st = "closed"
                /\ from_client_rx' = Append(from_client_rx, EvRemoveClient(conns[k].id))
                /\ clients' = clients
                /\ \A j \in Conns \ {k} : conns'[j] = conns[j] /\ outbox'[j] = outbox[j]
       /\ \A id \in ClientIds :
             RouterRemoves(id)
             => \A i \in DOMAIN clients :
                   ReceiverOpen(clients[i].sender)
                   => i \in DOMAIN clients' /\ clients'[i] = clients[i]]_vars


(***************************************************************************)
(* The overlay adapter: HiSwarmHandler (src/daemon/swarm.rs)               *)
(***************************************************************************)
\* Event::SendMessage and Event::Message
SwSendMessage(to_peer, to_client, from_client, service, content) ==
    [type |-> "SendMessage", to_peer |-> to_peer, to_client |-> to_client,
     from_client |-> from_client, service |-> service, content |-> content]

SwMessage(from_peer, from_client, to_client, service, content) ==
    [type |-> "Message", from_peer |-> from_peer, from_client |-> from_client,
     to_client |-> to_client, service |-> service, content |-> content]

\* HiRequest::Message
HiRequestMessage(to_client, from_client, service, content) ==
    [to_client |-> to_client, from_client |-> from_client, service |-> service,
     content |-> content]

\* the HiAnnounce of handle_timer_event (lines 298-300)
Announce(name, services_tag) ==
    [version |-> 0, name |-> name, services_tag |-> services_tag]

\* the strings PeerId::from_str and Multiaddr's parse accept
IsPeerId(str) == str \in PeerIds

Addresses == {"/ip4/10.0.0.2/tcp/4001"}

NodeNames == {"", "n1"}

\* the events the daemon sends to the adapter
ReceiverEvents ==
    {SwSetName(n) : n \in NodeNames} \cup {SwSetServicesTag(t) : t \in TagsSet}
    \cup {SwConnectAddress(a) : a \in Addresses \cup {"nowhere"}}
    \cup {SwSendMessage(p, 1, 1, SERVICE_FILE, <<1>>) : p \in PeerIds \cup {"nobody"}}

\* handle_receiver_event (lines 47-90) for the events the daemon sends
handle_receiver_event(event) ==
    /\ swarm' =
         CASE event.type = "ConnectAddress" ->
                [swarm EXCEPT !.calls =
                   IF event.address \in Addresses
                   THEN [NoCalls EXCEPT !.dial = {event.address}]
                   ELSE NoCalls]
           [] event.type = "SetName" ->
                [swarm EXCEPT !.node_name = event.name, !.calls = NoCalls]
           [] event.type = "SetServicesTag" ->
                [swarm EXCEPT !.services_tag = event.tag, !.calls = NoCalls]
           [] event.type = "SendMessage" ->
                [swarm EXCEPT !.calls =
                   IF IsPeerId(event.to_peer)
                   THEN [NoCalls EXCEPT !.send_request =
                           <<<<event.to_peer,
                               HiRequestMessage(event.to_client, event.from_client,
                                                event.service, event.content)>>>>]
                   ELSE NoCalls]
    /\ UNCHANGED <<routerVars, dirVars, ftVars, socket>>

\* handle_request_response_request (lines 93-113): the n-th request received
\* carries the content <<n>>; a task is spawned that sends the event to the
\* daemon, and the request is answered with Ok
handle_request_response_request(peer, request) ==
    /\ swarm.requests < MaxRequests
    /\ request.content = <<swarm.requests + 1>>
    /\ swarm' = [swarm EXCEPT
                   !.tasks = @ \cup {SwMessage(peer, request.from_client, request.to_client,
                                               request.service, request.content)},
                   !.requests = @ + 1,
                   !.calls = NoCalls]
    /\ UNCHANGED <<routerVars, dirVars, ftVars, socket>>

\* the task spawned in line 105 runs: its event is sent to the daemon.  The
\* executor runs the spawned tasks in no fixed order
TaskSends(event) ==
    /\ event \in swarm.tasks
    /\ swarm' = [swarm EXCEPT !.tasks = @ \ {event}, !.sender = Append(@, event)]
    /\ UNCHANGED <<routerVars, dirVars, ftVars, socket>>

\* the requests of peers
Requests ==
    {HiRequestMessage(1, 1, SERVICE_FILE, <<n>>) : n \in 1..MaxRequests}

RequestsNext ==
    \/ \E event \in ReceiverEvents : handle_receiver_event(event)
    \/ \E peer \in PeerIds, request \in Requests :
          handle_request_response_request(peer, request)
    \/ \E event \in swarm.tasks : TaskSends(event)

SpecRequests == Init /\ [][RequestsNext]_vars

\* C29: the Message events of the requests of one peer reach the daemon in
\* the order in which the requests arrived at the adapter
C29_EventsInArrivalOrder ==
    \A i, j \in 1..Len(swarm.sender) :
      (i < j /\ swarm.sender[i].from_peer = swarm.sender[j].from_peer)
      => swarm.sender[i].content[1] < swarm.sender[j].content[1]


\* handle_mdns_event (lines 212-233): mdns has discovered the peer, or its
\* record has expired; the handler only logs
handle_mdns_event(peer, found) ==
    /\ swarm' = [swarm EXCEPT
                   !.discovered = IF found THEN @ \cup {peer} ELSE @ \ {peer},
                   !.calls = NoCalls]
    /\ UNCHANGED <<routerVars, dirVars, ftVars, socket>>

\* gossipsub takes the peer into the mesh of the topic or out of it, which is
\* no event of the handler
MeshChanges(peer, grafted) ==
    /\ swarm' = [swarm EXCEPT
                   !.mesh = IF grafted THEN @ \cup {peer} ELSE @ \ {peer}]
    /\ UNCHANGED <<routerVars, dirVars, ftVars, socket>>

\* a heartbeat that dials the discovered peers that are not in the mesh
handle_timer_event_dial_unmeshed ==
    /\ swarm' = [swarm EXCEPT
                   !.calls = [dial |-> swarm.discovered \ swarm.mesh,
                              publish |-> <<Announce(swarm.node_name, swarm.services_tag)>>,
                              send_request |-> <<>>]]
    /\ UNCHANGED <<routerVars, dirVars, ftVars, socket>>

\* handle_timer_event (lines 266-307): when the mesh of the topic has no peer,
\* each discovered peer is dialed once; then the announcement with the name
\* and the services tag is encoded, which does not fail, and published.  An
\* error of dial or of publish is logged
handle_timer_event ==
    /\ swarm' = [swarm EXCEPT
                   !.calls = [dial |-> IF swarm.mesh = {} THEN swarm.discovered ELSE {},
                              publish |-> <<Announce(swarm.node_name, swarm.services_tag)>>,
                              send_request |-> <<>>]]
    /\ UNCHANGED <<routerVars, dirVars, ftVars, socket>>

\* handle_events (lines 310-338) with the events of the daemon, of mdns and of
\* the timer
HeartbeatNext ==
    \/ \E event \in ReceiverEvents : handle_receiver_event(event)
    \/ \E peer \in PeerIds, found \in BOOLEAN : handle_mdns_event(peer, found)
    \/ \E peer \in PeerIds, grafted \in BOOLEAN : MeshChanges(peer, grafted)
    \/ handle_timer_event

SpecHeartbeat == Init /\ [][HeartbeatNext]_vars

\* C30 as claimed: on every heartbeat the adapter dials each discovered peer
\* that is not in the mesh, also when the mesh holds other peers, and
\* publishes exactly one announcement with the current name and services tag
C30_HeartbeatDialsUnmeshedPeers ==
    [][handle_timer_event =>
         /\ swarm'.calls.dial = swarm.discovered \ swarm.mesh
         /\ swarm'.calls.publish = <<Announce(swarm.node_name, swarm.services_tag)>>]_vars

\* C30, amended: on every heartbeat the adapter dials each discovered peer
\* when the mesh has no peer, and no peer when the mesh has one; and it
\* publishes exactly one announcement with the current name and services tag
C30_HeartbeatDialsWhenMeshEmpty ==
    [][handle_timer_event =>
         /\ swarm'.calls.dial = IF swarm.mesh = {} THEN swarm.discovered ELSE {}
         /\ swarm'.calls.publish = <<Announce(swarm.node_name, swarm.services_tag)>>
         /\ swarm'.calls.send_request = <<>>]_vars

\* a heartbeat with a peer in the mesh and a discovered peer outside it has
\* dialed nobody and announced the name and the tag set before
C30_Witness ==
    /\ swarm.mesh # {}
    /\ swarm.discovered \ swarm.mesh # {}
    /\ swarm.calls.dial = {}
    /\ swarm.calls.publish = <<Announce("n1", 1)>>


\* C31: a run of the reaper removes exactly the entries of the peer table
\* that are more than PEER_TTL seconds old and leaves every other entry as it
\* was, an entry of exactly PEER_TTL seconds among them; an announcement of a
\* peer leaves one entry for the peer, which holds what was announced, and
\* changes no other entry
C31_ReaperAndAnnouncement ==
    [][/\ timer' # timer
          => /\ DOMAIN peers' =
                  {q \in DOMAIN peers : as_secs(now) - peers[q].last_update <= PEER_TTL}
             /\ \A q \in DOMAIN peers' : peers'[q] = peers[q]
       /\ \A peer_id \in PeerIds, files \in BOOLEAN :
             AnnouncePeer(peer_id, files)
             => /\ DOMAIN peers' = DOMAIN peers \cup {peer_id}
                /\ peers'[peer_id] = NewPeerInfo(peer_id, "", FALSE, files, as_secs(now))
                /\ \A q \in DOMAIN peers \ {peer_id} : peers'[q] = peers[q]]_vars

\* the reaper has just run and has kept an entry that is exactly PEER_TTL
\* seconds old, and removed the entry of the other peer
C31_Witness ==
    /\ timer = now + REAPER_PERIOD * TicksPerSec
    /\ \E p \in DOMAIN peers : as_secs(now) - peers[p].last_update = PEER_TTL
    /\ DOMAIN peers # PeerIds
    /\ as_secs(now) > PEER_TTL


(***************************************************************************)
(* The state changes of a transfer                                         *)
(***************************************************************************)
\* the states in which a transfer has not ended
NonTerminal ==
    {"New", "WaitAck", "SendChunk", "WaitLastAck", "WaitChunk", "SendAck", "SendLastAck"}

\* the file messages with the id of a transfer: a Get, chunks of no byte, of
\* CHUNK_SIZE bytes and of one byte more, and a ChunkAck
MessagesFor(id) ==
    {FmGet(id, "f"), FmChunk(id, <<>>), FmChunk(id, FileContent(CHUNK_SIZE)),
     FmChunk(id, FileContent(CHUNK_SIZE + 1)), FmChunkAck(id)}

\* the changes from state a to state b that a message fm may make: those of
\* the state machine as it is described and, unless strict, also those that
\* handle_download makes besides
OnMessage(strict, upload, a, b, fm) ==
    \/ upload /\ a = "WaitAck" /\ b = St("SendChunk") /\ fm.type = "ChunkAck"
    \/ upload /\ a = "WaitLastAck" /\ b = St("Done") /\ fm.type = "ChunkAck"
    \/ ~upload /\ a = "WaitChunk" /\ b = St("SendAck") /\ fm.type = "Chunk"
       /\ IF strict THEN Len(fm.data) = CHUNK_SIZE ELSE Len(fm.data) >= CHUNK_SIZE
    \/ ~upload /\ a = "WaitChunk" /\ b = St("SendLastAck") /\ fm.type = "Chunk"
       /\ Len(fm.data) < CHUNK_SIZE
    \/ ~strict /\ ~upload /\ a = "WaitChunk" /\ b = StError("Error writing file")
       /\ fm.type = "Chunk"

\* the changes that sending the next message may make
OnNext(upload, a, b) ==
    \/ upload /\ a \in {"New", "SendChunk"} /\ b.tag \in {"WaitAck", "WaitLastAck", "Error"}
    \/ ~upload /\ a = "New" /\ b.tag \in {"WaitChunk", "Error"}
    \/ ~upload /\ a = "SendAck" /\ b = St("WaitChunk")
    \/ ~upload /\ a = "SendLastAck" /\ b = St("Done")

\* the change that the timer or a cancel may make
OnTimerOrCancel(a, b) ==
    a \in NonTerminal /\ b \in {StError("Timeout"), StError("Canceled by user")}

\* every transfer of a client, whatever message, timeout or cancel it is
\* given and whatever the file system does, changes its state along the
\* state machine only, and so does a transfer that is created
StateMachineKept(strict) ==
    \A s \in FTSides :
      /\ \A id \in DOMAIN transfers[s] :
           LET t == transfers[s][id]
               secs == as_secs(now)
           IN /\ \A fm \in MessagesFor(id), io \in IoOutcomes :
                   LET h == handle(t, disk[s], fm, secs, io)
                   IN /\ \/ h.t.state = t.state
                         \/ /\ t.state.tag \in NonTerminal
                            /\ OnMessage(strict, is_upload(t), t.state.tag, h.t.state, fm)
                      /\ \A io2 \in IoOutcomes :
                            LET n == next(h.t, h.d, secs, io2)
                            IN \/ n.t.state = h.t.state
                               \/ /\ h.t.state.tag \in NonTerminal
                                  /\ OnNext(is_upload(t), h.t.state.tag, n.t.state)
              /\ \A idle \in {IDLE_TIMEOUT, IDLE_TIMEOUT + 1} :
                   LET c == check_timeout(t, t.last_active + idle)
                   IN c.state = t.state \/ OnTimerOrCancel(t.state.tag, c.state)
              /\ LET c == cancel(t, secs)
                 IN c.state = t.state \/ OnTimerOrCancel(t.state.tag, c.state)
      /\ \A file \in {"f", "x"}, io \in IoOutcomes :
           /\ OnNext(FALSE, "New",
                     next(NewFileTransfer(1, "P1", "", file, as_secs(now)),
                          disk[s], as_secs(now), io).t.state)
           /\ OnNext(TRUE, "New",
                     next(NewFileTransfer(1, "", "P2", file, as_secs(now)),
                          disk[s], as_secs(now), io).t.state)

\* C32 as claimed: every state change of a transfer is one of upload
\* New->WaitAck|WaitLastAck|Error, WaitAck->SendChunk on a ChunkAck,
\* SendChunk->WaitAck|WaitLastAck|Error, WaitLastAck->Done on a ChunkAck,
\* download New->WaitChunk|Error, WaitChunk->SendAck on a chunk of 512 bytes,
\* WaitChunk->SendLastAck on a shorter chunk, SendAck->WaitChunk,
\* SendLastAck->Done, and any state but Done and Error->Error on a timeout or
\* a cancel; in Done and in Error no message, timer or cancel changes the state
C32_StateMachineAsDescribed == StateMachineKept(TRUE)

\* C32, amended: the same with two more changes of a download: WaitChunk->
\* SendAck on every chunk of 512 bytes or more, and WaitChunk->Error when the
\* chunk cannot be written
C32_StateMachineWithWriteError == StateMachineKept(FALSE)

\* a download has ended in Error because a chunk could not be written, while
\* its upload waits for the acknowledgement of that chunk
C32_Witness ==
    \E id \in DOMAIN transfers["P2"] \cap DOMAIN transfers["P1"] :
       /\ transfers["P2"][id].state = StError("Error writing file")
       /\ transfers["P1"][id].state.tag \in {"WaitAck", "WaitLastAck"}

(***************************************************************************)
(* Get requests                                                            *)
(***************************************************************************)
\* the client on peer s takes a Get from its daemon
TakesGet(s) ==
    /\ net[s] # <<>>
    /\ Head(net[s]).to_client = FtClientId
    /\ Head(net[s]).service = SERVICE_FILE
    /\ Head(net[s]).content.type = "Get"
    /\ \E io \in IoOutcomes : FTReceive(s, io)

\* C33: a Get(id, file) creates an upload to the requester only if the file
\* is shared and the client holds no transfer with that id; otherwise no
\* transfer is created, no transfer the client holds is changed and nothing,
\* so no Chunk, is sent to the requester
C33_GetCreatesUploadOnlyIfNew ==
    [][\A s \in FTSides :
          TakesGet(s)
          => LET m == Head(net[s])
                 id == m.content.id
             IN IF id \in DOMAIN transfers[s] \/ ~is_shared(shares[s], m.content.file)
                THEN transfers'[s] = transfers[s] /\ ft_sent' = <<>>
                ELSE /\ DOMAIN transfers'[s] = DOMAIN transfers[s] \cup {id}
                     /\ \A i \in DOMAIN transfers[s] : transfers'[s][i] = transfers[s][i]
                     /\ is_upload(transfers'[s][id])
                     /\ transfers'[s][id].to = m.from_peer
                     /\ transfers'[s][id].file = m.content.file]_vars

\* a client that uploads to P2 under id 1 is about to take a Get with id 1
\* from a third peer
C33_Witness ==
    /\ 1 \in DOMAIN transfers["P1"]
    /\ transfers["P1"][1].state.tag \in {"WaitAck", "WaitLastAck"}
    /\ net["P1"] # <<>> /\ Head(net["P1"]).content.type = "Get"
    /\ Head(net["P1"]).from_peer = "P3"

(***************************************************************************)
(* Downloads end                                                           *)
(***************************************************************************)
\* the user of P2 downloads the shared file "f" of any size under one id or
\* two, a third peer P3 asks P1 for the file under the first id; no message
\* is lost, nobody cancels, no timer runs and the file system does not fail
FTNextNoLoss ==
    \/ \E s \in FTSides : FTReceive(s, "ok")
    \/ \E id \in FTIds : FTUserGet("P2", "P1", FtClientId, "f", id, "ok")
    \/ FTInject("P1", "P3", FmGet(1, "f"))

\* FileClient::run takes every message its daemon delivers
SpecFTNoLoss ==
    /\ FTInitAny
    /\ [][FTNextNoLoss]_vars
    /\ \A s \in FTSides : WF_vars(FTReceive(s, "ok"))

\* the transfer id has reached Done on both sides
DoneOnBothSides(id) ==
    /\ IsDownload("P2", id) /\ is_done(transfers["P2"][id])
    /\ IsUpload("P1", id) /\ is_done(transfers["P1"][id])

\* C34 as claimed: for a shared, readable file and a writable destination,
\* when no message is lost, nobody cancels and no timeout fires, every
\* download that was started eventually reaches Done on both sides
C34_EveryDownloadEnds ==
    \A id \in FTIds :
       (IsDownload("P2", id) /\ transfers["P2"][id].state.tag = "WaitChunk")
         ~> DoneOnBothSides(id)

\* C34, amended: under the same conditions every download whose Get the
\* uploader accepted, because it held no transfer with that id, eventually
\* reaches Done on both sides
C34_EveryAcceptedDownloadEnds ==
    \A id \in FTIds :
       (IsDownload("P2", id) /\ IsUpload("P1", id) /\ transfers["P1"][id].to = "P2")
         ~> DoneOnBothSides(id)

\* a download of more than one chunk is Done on both sides while the uploader
\* also holds an upload to the third peer
C34_Witness ==
    \E id \in FTIds :
       /\ DoneOnBothSides(id)
       /\ transfers["P2"][id].num_bytes > CHUNK_SIZE
       /\ \E other \in DOMAIN transfers["P1"] : transfers["P1"][other].to = "P3"

(***************************************************************************)
(* The router and closed outboxes                                          *)
(***************************************************************************)
\* C35: the router's main loop never stops because the outbox of one client
\* is closed: run_server_loop has not returned, whatever handlers have ended
\* while a message from their client or for it was pending
C35_RouterKeepsRunning == running

\* C36: a RemoveClient event deletes the registry entry of the connection
\* that ended only: the entry the router removes is never that of a
\* connection whose handler still runs, also after the id counter has wrapped
C36_RemovesOwnEntryOnly ==
    [][\A id \in ClientIds :
          (RouterRemoves(id) /\ id \in DOMAIN clients /\ id \notin DOMAIN clients')
          => ~ReceiverOpen(clients[id].sender)]_vars

(***************************************************************************)
(* A receive that the select! of a handler drops                           *)
(***************************************************************************)
\* handle_client, the select! of lines 80-115 (and that of FileClient::run):
\* the branch of the outbound message completes while the future of
\* receive_message has read the length and waits for the body; select! drops
\* that future, and the length it holds with it; the next turn of the loop
\* calls receive_message anew
select_drops_receive ==
    /\ socket.need >= 0
    /\ socket' = [socket EXCEPT !.need = -1]
    /\ UNCHANGED <<routerVars, dirVars, ftVars, swarm>>

\* the frames a client sends while the handler has messages to write
SelectMessages == {MsgOk, MsgRegister(FALSE, TRUE), MsgError(<<104, 105>>)}

SelectNext ==
    \/ \E m \in SelectMessages : send_message(m)
    \/ send_body
    \/ receive_len
    \/ receive_message
    \/ select_drops_receive

\* one connection whose handler waits for an outbound message and for an
\* inbound frame at the same time
SpecSelect == Init /\ [][SelectNext]_vars

\* C37: an inbound frame of which the handler has read the length when an
\* outbound message becomes ready is not lost or corrupted: the handler
\* resumes at the same frame boundary, so the bytes under way are the frames
\* of the messages not yet delivered, and the messages delivered are the
\* messages the peer sent, intact and in order, and no receive fails
C37_PartlyReadFrameKept ==
    /\ UnderWay = Frames(Unreceived)
    /\ IsPrefix(socket.got, socket.sent)
    /\ ~socket.failed

(***************************************************************************)
(* Done on the uploading side                                              *)
(***************************************************************************)
\* C38: whenever the upload of a transfer to P2 is Done, the download of the
\* same transfer on P2 is Done as well, in any interleaving of messages,
\* timeouts, cancels and failures of the file system
C38_UploadDoneOnlyIfDownloadDone ==
    \A id \in FTIds :
       (IsUpload("P1", id) /\ transfers["P1"][id].to = "P2" /\ is_done(transfers["P1"][id]))
       => (IsDownload("P2", id) /\ is_done(transfers["P2"][id]))

\* the upload is Done, having sent the file in a full chunk and an empty one,
\* after the clock went past the idle timeout
C38_Witness ==
    /\ IsUpload("P1", 1) /\ is_done(transfers["P1"][1])
    /\ transfers["P1"][1].num_bytes = CHUNK_SIZE
    /\ as_secs(now) > IDLE_TIMEOUT

(***************************************************************************)
(* The directory when replies do not arrive                                *)
(***************************************************************************)
\* the service directory while no ServiceReply of peer P1 arrives: P1 keeps
\* announcing tags, local clients come and go, and P1 asks for the local
\* services
DirNextNoReply ==
    \/ \E add \in BOOLEAN, id \in DirClients,
          services \in SUBSET ServiceIds, r \in FewTags :
          handle_event_client_update(add, id, services, r)
    \/ \E services_tag \in FewTags : handle_event_peer_update("P1", services_tag)
    \/ handle_message_service_request("P1", 1)

SpecDirNoReply == Init /\ [][DirNextNoReply]_vars

\* C39: the directory sends a new ServiceRequest as long as it holds a tag
\* for peer P1 without having received the matching ServiceReply: while no
\* ServiceReply of P1 has arrived, every PeerUpdate of P1 with a tag other
\* than 0 makes the directory write a ServiceRequest to P1, so that the loss
\* of a ServiceRequest or of a ServiceReply is made up for
C39_RequestUntilReply ==
    [][\A tag \in FewTags \ {0} :
          handle_event_peer_update("P1", tag) => RequestsTo(dir_sent', "P1") # {}]_vars

(***************************************************************************)
(* Expired peers in the service directory                                  *)
(***************************************************************************)
\* seconds between the announcements of a peer (src/daemon/swarm.rs,
\* line 333)
ANNOUNCE_PERIOD == 15

\* the file service of client 1 in a ServiceReply
FileServiceMap == [c \in {1} |-> {SERVICE_FILE}]

\* the router's peer table and the directory: P1 announces in the first
\* second and then falls silent, P2 announces every ANNOUNCE_PERIOD seconds;
\* the directory hears of the peers the router holds and gets their replies,
\* and a local client registers for the file service
ExpiryNext ==
    \/ Tick
    \/ Timer
    \/ as_secs(now) = 0 /\ AnnouncePeer("P1", TRUE)
    \/ as_secs(now) % ANNOUNCE_PERIOD = 0 /\ AnnouncePeer("P2", TRUE)
    \/ \E p \in DOMAIN peers : handle_event_peer_update(p, 1)
    \/ \E p \in DOMAIN peers : handle_message_service_reply(p, 1, FileServiceMap)
    \/ handle_event_client_update(TRUE, 2, {SERVICE_FILE}, 1)

\* the clock runs and the Delay of run_server_loop fires
SpecExpiry ==
    /\ Init
    /\ [][ExpiryNext]_vars
    /\ WF_vars(Tick) /\ WF_vars(Timer)

\* the maps of the ServiceUpdate events the directory emits list peer p
Advertised(p) ==
    \E s \in ServiceIds : p \in DOMAIN PeerClients(dir_peers, s)

=============================================================================
